---- MODULE Spec2Model ----
(***************************************************************************)
(* A model of the in-memory SQL-subset engine of data-chatbot              *)
(* (src/src/utils/sqlEngine.ts): the static table store with its           *)
(* asynchronous load operations, reset and the schema/row-count readers,   *)
(* and the query pipeline table resolution -> WHERE -> GROUP BY ->         *)
(* ORDER BY -> LIMIT -> projection; and DataProcessor.executeQuery         *)
(* (src/src/utils/dataProcessor.ts), which calls the engine and falls back *)
(* on its data argument when the engine fails.                             *)
(*                                                                         *)
(* Representation.                                                         *)
(*  - A JavaScript value is a record [t, n, s, b]; t is the tag ("null",   *)
(*    "undef", "num", "str", "bool"), n a number in hundredths, s a string *)
(*    and b a boolean.  A row is the sequence of its entries [k, v] in key *)
(*    order; reading a key the row lacks gives Undefined.                  *)
(*  - A query text is a sequence of whitespace-separated tokens [w, q]:    *)
(*    w is the text and q the quote character around it ("" for a bare     *)
(*    word).  The regular expressions of the source are matched on the     *)
(*    token sequence.                                                      *)
(*  - String primitives of the runtime (toLowerCase, parseFloat, Number,   *)
(*    Date.parse, localeCompare) are given on the finite vocabulary of the *)
(*    model.                                                               *)
(***************************************************************************)
EXTENDS Integers, Sequences, FiniteSets, TLC

VARIABLES initialized, tables, procs, lastCall, loaded, loadBegun, lastStarted

vars == <<initialized, tables, procs, lastCall, loaded, loadBegun, lastStarted>>

(***************************************************************************)
(* Bounds of the model.                                                    *)
(***************************************************************************)
NumProcs == 2
MaxInt == 60

(* Numbers are kept in hundredths: Math.round(x * 100) / 100. *)
Scale == 100

(***************************************************************************)
(* Values.                                                                 *)
(***************************************************************************)
Null == [t |-> "null", n |-> 0, s |-> "", b |-> FALSE]
Undefined == [t |-> "undef", n |-> 0, s |-> "", b |-> FALSE]
Num(i) == [t |-> "num", n |-> i * Scale, s |-> "", b |-> FALSE]
Str(x) == [t |-> "str", n |-> 0, s |-> x, b |-> FALSE]
Bool(x) == [t |-> "bool", n |-> 0, s |-> "", b |-> x]

NaN == [ok |-> FALSE, v |-> 0]
Number(h) == [ok |-> TRUE, v |-> h]

(***************************************************************************)
(* Rows: a JavaScript object is the sequence of its entries [k, v] in the  *)
(* order Object.keys gives them: the array-index keys in ascending order,  *)
(* then the other keys in insertion order.                                 *)
(***************************************************************************)
(* The decimal numerals of the model: "0" .. ToString(MaxInt). *)
IntStr == [i \in 0..MaxInt |-> ToString(i)]

IsIntStr(s) == \E i \in 0..MaxInt : IntStr[i] = s

IntOfStr(s) == CHOOSE i \in 0..MaxInt : IntStr[i] = s

Entry(key, value) == [k |-> key, v |-> value]

(* row.hasOwnProperty(column) *)
Has(row, column) == \E i \in DOMAIN row : row[i].k = column

(* row[column] *)
Get(row, column) ==
  IF Has(row, column) THEN row[CHOOSE i \in DOMAIN row : row[i].k = column].v
  ELSE Undefined

(* row[column] = value.  A new key goes to the end of the keys, except a key
   that is an array index (a canonical numeral): the keys of an object that
   are array indices come first, in ascending order. *)
Put(row, column, value) ==
  IF Has(row, column)
  THEN [i \in DOMAIN row |-> IF row[i].k = column THEN Entry(column, value) ELSE row[i]]
  ELSE IF IsIntStr(column)
  THEN LET before == SelectSeq(row, LAMBDA e : IsIntStr(e.k)
                                                /\ IntOfStr(e.k) < IntOfStr(column))
           after == SelectSeq(row, LAMBDA e : ~(IsIntStr(e.k)
                                                /\ IntOfStr(e.k) < IntOfStr(column)))
       IN before \o <<Entry(column, value)>> \o after
  ELSE Append(row, Entry(column, value))

(* Object.keys(row) *)
Keys(row) == [i \in DOMAIN row |-> row[i].k]

(***************************************************************************)
(* Runtime string primitives on the vocabulary of the model.               *)
(***************************************************************************)
LowerTable ==
  [s \in {"Engineering", "ENGINEERING", "Sales", "SALES", "TRUE", "True", "FALSE",
          "Dataset", "DATASET", "Other", "Age", "Dept",
          "SELECT", "Select", "FROM", "From", "WHERE", "GROUP", "BY", "ORDER",
          "LIMIT", "AND", "OR", "LIKE", "IN", "BETWEEN", "IS", "NOT", "NULL",
          "AS", "ASC", "DESC", "DELETE", "COUNT(*)", "SELECTED", "SHOW",
          "COLUMNS"} |->
     CASE s = "Engineering" -> "engineering"
       [] s = "ENGINEERING" -> "engineering"
       [] s = "Sales" -> "sales"
       [] s = "SALES" -> "sales"
       [] s = "TRUE" -> "true"
       [] s = "True" -> "true"
       [] s = "FALSE" -> "false"
       [] s = "Dataset" -> "dataset"
       [] s = "DATASET" -> "dataset"
       [] s = "Other" -> "other"
       [] s = "Age" -> "age"
       [] s = "Dept" -> "dept"
       [] s = "SELECT" -> "select"
       [] s = "Select" -> "select"
       [] s = "FROM" -> "from"
       [] s = "From" -> "from"
       [] s = "WHERE" -> "where"
       [] s = "GROUP" -> "group"
       [] s = "BY" -> "by"
       [] s = "ORDER" -> "order"
       [] s = "LIMIT" -> "limit"
       [] s = "AND" -> "and"
       [] s = "OR" -> "or"
       [] s = "LIKE" -> "like"
       [] s = "IN" -> "in"
       [] s = "BETWEEN" -> "between"
       [] s = "IS" -> "is"
       [] s = "NOT" -> "not"
       [] s = "NULL" -> "null"
       [] s = "AS" -> "as"
       [] s = "ASC" -> "asc"
       [] s = "DESC" -> "desc"
       [] s = "DELETE" -> "delete"
       [] s = "SHOW" -> "show"
       [] s = "COLUMNS" -> "columns"
       [] s = "COUNT(*)" -> "count(*)"
       [] s = "SELECTED" -> "selected"]

(* String.prototype.toLowerCase *)
toLowerCase(s) == IF s \in DOMAIN LowerTable THEN LowerTable[s] ELSE s

(* Numerals with a fractional part, and strings with a numeric prefix. *)
FractionTable == [s \in {"2.5", "1.5"} |-> IF s = "2.5" THEN 250 ELSE 150]

PrefixTable == [s \in {"7up"} |-> 700]

(* The number a text without blanks begins with, NaN when there is none. *)
NumericPrefix(s) ==
  IF IsIntStr(s) THEN Number(IntOfStr(s) * Scale)
  ELSE IF s \in DOMAIN FractionTable THEN Number(FractionTable[s])
  ELSE IF s \in DOMAIN PrefixTable THEN Number(PrefixTable[s])
  ELSE NaN

(* A text that begins with a number and goes on after a blank is written as
   the first word followed by MoreText. *)
MoreText == " <more text>"

NumericHeads ==
  {IntStr[i] : i \in 0..MaxInt} \cup DOMAIN FractionTable \cup DOMAIN PrefixTable

FollowedTexts == {h \o MoreText : h \in NumericHeads}

(* parseFloat(s): the longest numeric prefix, NaN when there is none. *)
parseFloat(s) ==
  IF s \in FollowedTexts
  THEN NumericPrefix(CHOOSE h \in NumericHeads : h \o MoreText = s)
  ELSE NumericPrefix(s)

(* Number(s) for a string: the whole string must be a numeral ("" is 0). *)
NumberOfStr(s) ==
  IF s = "" THEN Number(0)
  ELSE IF IsIntStr(s) THEN Number(IntOfStr(s) * Scale)
  ELSE IF s \in DOMAIN FractionTable THEN Number(FractionTable[s])
  ELSE NaN

(* Number(v) *)
NumberOf(v) ==
  CASE v.t = "num" -> Number(v.n)
    [] v.t = "bool" -> Number(IF v.b THEN Scale ELSE 0)
    [] v.t = "null" -> Number(0)
    [] v.t = "str" -> NumberOfStr(v.s)
    [] OTHER -> NaN

(* String(n) for a number kept in hundredths. *)
NumToStr(h) ==
  IF h % Scale = 0 /\ h \div Scale \in 0..MaxInt THEN IntStr[h \div Scale]
  ELSE IF \E s \in DOMAIN FractionTable : FractionTable[s] = h
       THEN CHOOSE s \in DOMAIN FractionTable : FractionTable[s] = h
       ELSE "?"

(* String(v) *)
String(v) ==
  CASE v.t = "num" -> NumToStr(v.n)
    [] v.t = "str" -> v.s
    [] v.t = "bool" -> IF v.b THEN "true" ELSE "false"
    [] v.t = "null" -> "null"
    [] OTHER -> "undefined"

(* !isNaN(Date.parse(s)) for the strings of the vocabulary. *)
DateStrings == {"2024-01-01", "2023-06-15"}

IsDate(v) == v.t = "str" /\ v.s \in DateStrings

(***************************************************************************)
(* Sequence helpers.                                                       *)
(***************************************************************************)
Range(seq) == {seq[i] : i \in DOMAIN seq}

(***************************************************************************)
(* Loading: createTableFromData and inferDataType.                         *)
(***************************************************************************)
(* The cleaning of one raw value, createTableFromData lines 104-120. *)
CleanValue(value) ==
  IF value.t \in {"null", "undef"} \/ (value.t = "str" /\ value.s = "") THEN Null
  ELSE IF value.t = "str" /\ toLowerCase(value.s) = "true" THEN Bool(TRUE)
  ELSE IF value.t = "str" /\ toLowerCase(value.s) = "false" THEN Bool(FALSE)
  ELSE value

CleanRow(row) == [i \in DOMAIN row |-> Entry(row[i].k, CleanValue(row[i].v))]

IsBlank(v) == v.t \in {"null", "undef"} \/ (v.t = "str" /\ v.s = "")

IsBooleanLike(v) ==
  \/ v.t = "bool"
  \/ v.t = "num" /\ v.n \in {0, Scale}
  \/ v.t = "str" /\ toLowerCase(v.s) \in {"true", "false"}

IsInteger(v) == NumberOf(v).ok /\ NumberOf(v).v % Scale = 0

(* A variant of the inference that tries the numbers before the booleans. *)
inferDataType_NumbersFirst(data, columnName) ==
  LET values == {Get(data[i], columnName) : i \in DOMAIN data}
      sample == {v \in values : ~IsBlank(v)}
  IN IF sample = {} THEN "STRING"
     ELSE IF \A v \in sample : NumberOf(v).ok
          THEN IF \A v \in sample : IsInteger(v) THEN "INTEGER" ELSE "REAL"
     ELSE IF \A v \in sample : IsBooleanLike(v) THEN "BOOLEAN"
     ELSE IF \A v \in sample : IsDate(v) THEN "DATE"
     ELSE "STRING"

inferDataType(data, columnName) ==
  LET values == {Get(data[i], columnName) : i \in DOMAIN data}
      sample == {v \in values : ~IsBlank(v)}
  IN IF sample = {} THEN "STRING"
     ELSE IF \A v \in sample : IsBooleanLike(v) THEN "BOOLEAN"
     ELSE IF \A v \in sample : NumberOf(v).ok
          THEN IF \A v \in sample : IsInteger(v) THEN "INTEGER" ELSE "REAL"
     ELSE IF \A v \in sample : IsDate(v) THEN "DATE"
     ELSE "STRING"

(* The table createTableFromData stores for a non-empty data array. *)
createTable(data, tableName) ==
  LET cleanedData == [i \in DOMAIN data |-> CleanRow(data[i])]
      names == Keys(cleanedData[1])
      columns == [i \in DOMAIN names |->
                    [name |-> names[i], type |-> inferDataType(cleanedData, names[i])]]
  IN [name |-> tableName, columns |-> columns, data |-> cleanedData]

(***************************************************************************)
(* Query text: tokens and keyword tests.                                   *)
(***************************************************************************)
W(w) == [w |-> w, q |-> ""]
L(w) == [w |-> w, q |-> "'"]

(* Bare tokens that do not end in a word character (\w). *)
NonWords == {"*", ",", "(", ")", "=", "!=", "<>", ">", "<", ">=", "<=", "==",
             "COUNT(*)", "AVG(age)", "SUM(age)"}

Operators == {"=", "!=", "<>", ">", "<", ">=", "<=", "=="}

IsWord(tok) == tok.q = "" /\ tok.w \notin NonWords

(* The token is the keyword kw (given in lower case), in any letter case. *)
IsKeyword(tok, kw) == tok.q = "" /\ toLowerCase(tok.w) = kw

(* The least position of a set of positions, 0 for none (String.match fails). *)
FirstOf(S) == IF S = {} THEN 0 ELSE CHOOSE i \in S : \A j \in S : i <= j

(* The text of a clause made of one token; a longer clause is a text with blanks,
   which is the name of no column and the string form of no value: the first
   word followed by MoreText when it begins with a number, which parseFloat
   reads, and one text for all the others. *)
TextOf(clause) ==
  IF clause = <<>> THEN ""
  ELSE IF Len(clause) = 1 THEN clause[1].w
  ELSE IF clause[1].w \in NumericHeads THEN clause[1].w \o MoreText
  ELSE "<text with blanks>"

(***************************************************************************)
(* Ordering of strings by UTF-16 code units (the operators < and > of      *)
(* JavaScript on strings), on the lower-case strings of the model: the     *)
(* empty string first, then strings that start with a digit, then the      *)
(* words in the order of LetterOrder.                                      *)
(***************************************************************************)
LetterOrder == <<"abc", "engineering", "false", "null", "other", "sales", "true",
                 "undefined">>

StartsWithDigit(s) == parseFloat(s).ok

StrRank(s) ==
  IF s = "" THEN 0
  ELSE IF StartsWithDigit(s) THEN 1
  ELSE IF \E i \in DOMAIN LetterOrder : LetterOrder[i] = s
       THEN 1 + (CHOOSE i \in DOMAIN LetterOrder : LetterOrder[i] = s)
       ELSE 1 + Len(LetterOrder) + 1

StrLess(a, b) == StrRank(a) < StrRank(b)

(* '%value%' patterns of the model and String.prototype.includes on them. *)
LikeTable == [p \in {"%ng%", "%ALE%"} |-> IF p = "%ng%" THEN "ng" ELSE "ALE"]

IncludesPairs == {<<"engineering", "ng">>, <<"sales", "ale">>}

Includes(s, sub) == <<s, sub>> \in IncludesPairs

(***************************************************************************)
(* WHERE: leaf conditions (evaluateSingleCondition).  The rows of the      *)
(* pipeline are elements [id, row]: id is the identity of the row object   *)
(* (its position in the stored table), row its content.  An evaluation     *)
(* returns [rows, same]: same tells that the array returned is the very    *)
(* array passed in.                                                        *)
(***************************************************************************)
NoMatch == [ok |-> FALSE, column |-> "", operator |-> "", value |-> "",
            values |-> {}, min |-> 0, max |-> 0, isNotNull |-> FALSE]

(* condition.replace(/^\(|\)$/g, '').trim() *)
StripParens(condition) ==
  LET a == IF condition # <<>> /\ condition[1] = W("(") THEN Tail(condition)
           ELSE condition
  IN IF a # <<>> /\ a[Len(a)] = W(")") THEN SubSeq(a, 1, Len(a) - 1) ELSE a

(* /(\w+)\s+LIKE\s+['"]%([^%'"]+)%['"]?/i *)
likeMatch(c) ==
  LET i == FirstOf({j \in 1..(Len(c) - 2) :
                      /\ IsWord(c[j])
                      /\ IsKeyword(c[j + 1], "like")
                      /\ c[j + 2].q # ""
                      /\ c[j + 2].w \in DOMAIN LikeTable})
  IN IF i = 0 THEN NoMatch
     ELSE [NoMatch EXCEPT !.ok = TRUE, !.column = c[i].w,
                          !.value = LikeTable[c[i + 2].w]]

(* /(\w+)\s+IN\s*\(([^)]+)\)/i, and the split of the list at its commas. *)
ClosingParen(c, from) == FirstOf({j \in from..Len(c) : c[j] = W(")")})

inMatch(c) ==
  LET i == FirstOf({j \in 1..(Len(c) - 4) :
                      /\ IsWord(c[j])
                      /\ IsKeyword(c[j + 1], "in")
                      /\ c[j + 2] = W("(")
                      /\ ClosingParen(c, j + 3) > j + 3})
  IN IF i = 0 THEN NoMatch
     ELSE [NoMatch EXCEPT !.ok = TRUE, !.column = c[i].w,
             !.values = {c[j].w : j \in {k \in (i + 3)..(ClosingParen(c, i + 3) - 1) :
                                           c[k] # W(",")}}]

(* \d+(?:\.\d+)? *)
IsNumeral(tok) == tok.q = "" /\ (IsIntStr(tok.w) \/ tok.w \in DOMAIN FractionTable)

(* /(\w+)\s+BETWEEN\s+(\d+(?:\.\d+)?)\s+AND\s+(\d+(?:\.\d+)?)/i *)
betweenMatch(c) ==
  LET i == FirstOf({j \in 1..(Len(c) - 4) :
                      /\ IsWord(c[j])
                      /\ IsKeyword(c[j + 1], "between")
                      /\ IsNumeral(c[j + 2])
                      /\ IsKeyword(c[j + 3], "and")
                      /\ IsNumeral(c[j + 4])})
  IN IF i = 0 THEN NoMatch
     ELSE [NoMatch EXCEPT !.ok = TRUE, !.column = c[i].w,
             !.min = parseFloat(c[i + 2].w).v, !.max = parseFloat(c[i + 4].w).v]

(* /(\w+)\s+IS\s+(NOT\s+)?NULL/i *)
nullMatch(c) ==
  LET i == FirstOf({j \in 1..(Len(c) - 2) :
                      /\ IsWord(c[j])
                      /\ IsKeyword(c[j + 1], "is")
                      /\ \/ IsKeyword(c[j + 2], "null")
                         \/ /\ IsKeyword(c[j + 2], "not")
                            /\ j + 3 <= Len(c)
                            /\ IsKeyword(c[j + 3], "null")})
  IN IF i = 0 THEN NoMatch
     ELSE [NoMatch EXCEPT !.ok = TRUE, !.column = c[i].w,
                          !.isNotNull = IsKeyword(c[i + 2], "not")]

(* The value of a comparison, groups 3 and 4 of the pattern: the text inside the
   quotes when a quote follows the operator, else the text up to the next quote. *)
ComparisonValue(rest) ==
  IF rest = <<>> THEN ""
  ELSE IF rest[1].q # "" THEN rest[1].w
  ELSE LET stop == FirstOf({j \in DOMAIN rest : rest[j].q # ""})
       IN TextOf(IF stop = 0 THEN rest ELSE SubSeq(rest, 1, stop - 1))

(* The comparison pattern of line 358: a word, an operator made of the characters
   > < = !, and the value. *)
comparisonMatch(c) ==
  LET i == FirstOf({j \in 1..(Len(c) - 1) :
                      /\ IsWord(c[j])
                      /\ c[j + 1].q = ""
                      /\ c[j + 1].w \in Operators})
  IN IF i = 0 THEN NoMatch
     ELSE [NoMatch EXCEPT !.ok = TRUE, !.column = c[i].w, !.operator = c[i + 1].w,
                          !.value = ComparisonValue(SubSeq(c, i + 2, Len(c)))]

(* A variant of the comparison that keeps the case of both sides. *)
Compare_CaseSensitive(operator, rowValue, value) ==
  LET rowNum == parseFloat(String(rowValue))
      valNum == parseFloat(value)
      rowStr == String(rowValue)
      valStr == value
  IN IF rowNum.ok /\ valNum.ok
     THEN CASE operator = "=" -> rowNum.v = valNum.v
            [] operator \in {"!=", "<>"} -> rowNum.v # valNum.v
            [] operator = ">" -> rowNum.v > valNum.v
            [] operator = "<" -> rowNum.v < valNum.v
            [] operator = ">=" -> rowNum.v >= valNum.v
            [] operator = "<=" -> rowNum.v <= valNum.v
            [] OTHER -> FALSE
     ELSE CASE operator = "=" -> rowStr = valStr
            [] operator \in {"!=", "<>"} -> rowStr # valStr
            [] operator = ">" -> StrLess(valStr, rowStr)
            [] operator = "<" -> StrLess(rowStr, valStr)
            [] operator = ">=" -> ~StrLess(rowStr, valStr)
            [] operator = "<=" -> ~StrLess(valStr, rowStr)
            [] OTHER -> FALSE

(* The test of the comparison filter for one row value, lines 365-397. *)
Compare(operator, rowValue, value) ==
  LET rowNum == parseFloat(String(rowValue))
      valNum == parseFloat(value)
      rowStr == toLowerCase(String(rowValue))
      valStr == toLowerCase(value)
  IN IF rowNum.ok /\ valNum.ok
     THEN CASE operator = "=" -> rowNum.v = valNum.v
            [] operator \in {"!=", "<>"} -> rowNum.v # valNum.v
            [] operator = ">" -> rowNum.v > valNum.v
            [] operator = "<" -> rowNum.v < valNum.v
            [] operator = ">=" -> rowNum.v >= valNum.v
            [] operator = "<=" -> rowNum.v <= valNum.v
            [] OTHER -> FALSE
     ELSE CASE operator = "=" -> rowStr = valStr
            [] operator \in {"!=", "<>"} -> rowStr # valStr
            [] operator = ">" -> StrLess(valStr, rowStr)
            [] operator = "<" -> StrLess(rowStr, valStr)
            [] operator = ">=" -> ~StrLess(rowStr, valStr)
            [] operator = "<=" -> ~StrLess(valStr, rowStr)
            [] OTHER -> FALSE

Filtered(data, Test(_)) == [rows |-> SelectSeq(data, Test), same |-> FALSE]

(* A variant in which a condition that no pattern matches keeps no row. *)
Unmatched_KeepsNothing(data) == [rows |-> <<>>, same |-> FALSE]

(* return data (line 401): the array passed in, no pattern having matched. *)
Unmatched(data) == [rows |-> data, same |-> TRUE]

evaluateSingleCondition(data, condition) ==
  LET c == StripParens(condition)
      like == likeMatch(c)
      in == inMatch(c)
      between == betweenMatch(c)
      null == nullMatch(c)
      comparison == comparisonMatch(c)
  IN IF like.ok THEN
       Filtered(data, LAMBDA e :
         LET rowValue == Get(e.row, like.column)
         IN rowValue.t = "str"
            /\ Includes(toLowerCase(rowValue.s), toLowerCase(like.value)))
     ELSE IF in.ok THEN
       Filtered(data, LAMBDA e :
         \E val \in in.values :
           toLowerCase(String(Get(e.row, in.column))) = toLowerCase(val))
     ELSE IF between.ok THEN
       Filtered(data, LAMBDA e :
         LET rowValue == parseFloat(String(Get(e.row, between.column)))
         IN rowValue.ok /\ rowValue.v >= between.min /\ rowValue.v <= between.max)
     ELSE IF null.ok THEN
       Filtered(data, LAMBDA e :
         LET isNull == IsBlank(Get(e.row, null.column))
         IN IF null.isNotNull THEN ~isNull ELSE isNull)
     ELSE IF comparison.ok THEN
       Filtered(data, LAMBDA e :
         Compare(comparison.operator, Get(e.row, comparison.column), comparison.value))
     ELSE Unmatched(data)

(***************************************************************************)
(* WHERE: boolean structure (evaluateWhereExpression).                     *)
(***************************************************************************)
(* normalizedExpression.includes(' OR '): the keyword as written, between blanks. *)
HasSeparator(expression, kw) ==
  \E j \in 2..(Len(expression) - 1) : expression[j] = W(kw)

RECURSIVE Split(_, _)
(* normalizedExpression.split(' OR ') *)
Split(expression, kw) ==
  LET j == FirstOf({k \in 2..(Len(expression) - 1) : expression[k] = W(kw)})
  IN IF j = 0 THEN <<expression>>
     ELSE <<SubSeq(expression, 1, j - 1)>>
          \o Split(SubSeq(expression, j + 1, Len(expression)), kw)

(* A variant of the union that appends without looking for the row. *)
AddAll_NoDedupe(results, partResults) == results \o partResults

RECURSIVE AddAll(_, _)
(* partResults.forEach(row => results.add(row)): a Set keeps insertion order and
   holds an object once. *)
AddAll(results, partResults) ==
  IF partResults = <<>> THEN results
  ELSE LET e == Head(partResults)
       IN AddAll(IF \E i \in DOMAIN results : results[i].id = e.id THEN results
                 ELSE Append(results, e),
                 Tail(partResults))

RECURSIVE evaluateWhereExpression(_, _), OrParts(_, _, _), AndParts(_, _)

OrParts(data, orParts, results) ==
  IF orParts = <<>> THEN [rows |-> results, same |-> FALSE]
  ELSE OrParts(data, Tail(orParts),
               AddAll(results, evaluateWhereExpression(data, Head(orParts)).rows))

AndParts(result, andParts) ==
  IF andParts = <<>> THEN result
  ELSE LET next == evaluateWhereExpression(result.rows, Head(andParts))
       IN AndParts([rows |-> next.rows, same |-> result.same /\ next.same],
                   Tail(andParts))

(* A variant that splits at AND before it splits at OR. *)
evaluateWhereExpression_AndFirst(data, expression) ==
  IF HasSeparator(expression, "AND")
  THEN AndParts([rows |-> data, same |-> TRUE], Split(expression, "AND"))
  ELSE IF HasSeparator(expression, "OR")
  THEN OrParts(data, Split(expression, "OR"), <<>>)
  ELSE evaluateSingleCondition(data, expression)

evaluateWhereExpression(data, expression) ==
  IF HasSeparator(expression, "OR")
  THEN OrParts(data, Split(expression, "OR"), <<>>)
  ELSE IF HasSeparator(expression, "AND")
  THEN AndParts([rows |-> data, same |-> TRUE], Split(expression, "AND"))
  ELSE evaluateSingleCondition(data, expression)

applyWhereClause(data, whereClause) == evaluateWhereExpression(data, whereClause)

(***************************************************************************)
(* Column specifications shared by GROUP BY and the projection.            *)
(***************************************************************************)
RECURSIVE SplitComma(_)
(* clause.split(',').map(col => col.trim()) *)
SplitComma(clause) ==
  LET j == FirstOf({k \in DOMAIN clause : clause[k] = W(",")})
  IN IF j = 0 THEN <<clause>>
     ELSE <<SubSeq(clause, 1, j - 1)>> \o SplitComma(SubSeq(clause, j + 1, Len(clause)))

(* The alias pattern /^(.+?)\s+(?:as\s+)?(\w+)$/i of lines 518 and 595. *)
aliasMatch(colSpec) ==
  LET n == Len(colSpec)
  IN IF n >= 2 /\ IsWord(colSpec[n])
     THEN [ok |-> TRUE,
           sourceColumn |-> TextOf(IF n >= 3 /\ IsKeyword(colSpec[n - 1], "as")
                                   THEN SubSeq(colSpec, 1, n - 2)
                                   ELSE SubSeq(colSpec, 1, n - 1)),
           targetColumn |-> colSpec[n].w]
     ELSE [ok |-> FALSE, sourceColumn |-> "", targetColumn |-> ""]

(* Aggregate calls of the vocabulary: fn(column). *)
AggTable ==
  [s \in {"AVG(age)", "SUM(age)", "avg(age)"} |->
     [fn |-> IF s = "SUM(age)" THEN "sum" ELSE "avg", column |-> "age"]]

(* /count\(\*\)\s+(?:as\s+)?(\w+)/i, and the same pattern for avg and sum. *)
aggMatch(colSpec, fn) ==
  LET i == FirstOf({j \in 1..(Len(colSpec) - 1) :
                      /\ colSpec[j].q = ""
                      /\ IF fn = "count" THEN toLowerCase(colSpec[j].w) = "count(*)"
                         ELSE colSpec[j].w \in DOMAIN AggTable
                              /\ AggTable[colSpec[j].w].fn = fn
                      /\ IsWord(colSpec[j + 1])})
  IN IF i = 0 THEN [ok |-> FALSE, column |-> "", alias |-> ""]
     ELSE [ok |-> TRUE,
           column |-> IF fn = "count" THEN "*" ELSE AggTable[colSpec[i].w].column,
           alias |-> IF IsKeyword(colSpec[i + 1], "as") /\ i + 2 <= Len(colSpec)
                        /\ IsWord(colSpec[i + 2])
                     THEN colSpec[i + 2].w ELSE colSpec[i + 1].w]

(***************************************************************************)
(* GROUP BY (applyGroupBy).                                                *)
(***************************************************************************)
(* A variant of the key without the sentinel for missing values. *)
GroupKey_NoSentinel(row, groupColumn) == String(Get(row, groupColumn))

(* The key of a row's group, line 411. *)
GroupKey(row, groupColumn) ==
  LET groupValue == Get(row, groupColumn)
  IN IF IsBlank(groupValue) THEN "NULL" ELSE String(groupValue)

RECURSIVE FirstSeen(_, _)
(* The keys in the order of their first row. *)
FirstSeen(data, groupColumn) ==
  IF data = <<>> THEN <<>>
  ELSE LET init == FirstSeen(SubSeq(data, 1, Len(data) - 1), groupColumn)
           key == GroupKey(data[Len(data)].row, groupColumn)
       IN IF \E i \in DOMAIN init : init[i] = key THEN init ELSE Append(init, key)

RECURSIVE Ascending(_)
(* A set of array-index keys in ascending numeric order. *)
Ascending(S) ==
  IF S = {} THEN <<>>
  ELSE LET m == CHOOSE x \in S : \A y \in S : IntOfStr(x) <= IntOfStr(y)
       IN <<m>> \o Ascending(S \ {m})

(* Object.entries(groups): the keys that are array indices come first, in
   ascending order, then the other keys in insertion order. *)
GroupOrder(data, groupColumn) ==
  LET seen == FirstSeen(data, groupColumn)
  IN Ascending({k \in Range(seen) : IsIntStr(k)})
     \o SelectSeq(seen, LAMBDA k : ~IsIntStr(k))

(* The select list applyGroupBy works on: the text between SELECT and the first
   FROM that a table name follows (the first pattern of line 428); the later
   patterns take the text after SELECT when there is no such FROM. *)
GroupSelectClause(query) ==
  LET i == FirstOf({j \in DOMAIN query : IsKeyword(query[j], "select")})
      f == FirstOf({j \in (i + 2)..(Len(query) - 1) :
                      IsKeyword(query[j], "from") /\ IsWord(query[j + 1])})
  IN IF i = 0 THEN <<>>
     ELSE IF f # 0 THEN SubSeq(query, i + 1, f - 1)
     ELSE SubSeq(query, i + 1, Len(query))

RECURSIVE SumOf(_, _)
(* groupData.reduce((acc, row) => acc + (Number(row[column]) || 0), 0) *)
SumOf(groupData, column) ==
  IF groupData = <<>> THEN 0
  ELSE LET x == NumberOf(Get(Head(groupData).row, column))
       IN (IF x.ok THEN x.v ELSE 0) + SumOf(Tail(groupData), column)

(* A variant of the mean that cuts the digits after the second decimal. *)
RoundedMean_Truncated(sum, n) == sum \div n

(* Math.round((sum / n) * 100) / 100 on hundredths: halves round up. *)
RoundedMean(sum, n) == (2 * sum + n) \div (2 * n)

RECURSIVE AggregateRow(_, _, _, _, _)
(* columnSpecs.forEach(colSpec => ...) for one group, lines 489-535. *)
AggregateRow(aggregatedRow, columnSpecs, groupKey, groupData, groupColumn) ==
  IF columnSpecs = <<>> THEN aggregatedRow
  ELSE
    LET colSpec == Head(columnSpecs)
        count == aggMatch(colSpec, "count")
        avg == aggMatch(colSpec, "avg")
        sum == aggMatch(colSpec, "sum")
        alias == aliasMatch(colSpec)
        keyValue == IF groupKey = "NULL" THEN Null ELSE Str(groupKey)
        next ==
          IF count.ok THEN
            Put(aggregatedRow, count.alias, Num(Len(groupData)))
          ELSE IF avg.ok THEN
            Put(aggregatedRow, avg.alias,
                [Num(0) EXCEPT !.n = RoundedMean(SumOf(groupData, avg.column),
                                                 Len(groupData))])
          ELSE IF sum.ok THEN
            Put(aggregatedRow, sum.alias,
                [Num(0) EXCEPT !.n = SumOf(groupData, sum.column)])
          ELSE IF alias.ok THEN
            IF alias.sourceColumn = groupColumn
            THEN Put(aggregatedRow, alias.targetColumn, keyValue)
            ELSE aggregatedRow
          ELSE IF TextOf(colSpec) = groupColumn
               THEN Put(aggregatedRow, TextOf(colSpec), keyValue)
               ELSE aggregatedRow
    IN AggregateRow(next, Tail(columnSpecs), groupKey, groupData, groupColumn)

applyGroupBy(data, groupByClause, originalQuery) ==
  LET groupColumn == TextOf(groupByClause)
      order == GroupOrder(data, groupColumn)
      columnSpecs == SplitComma(GroupSelectClause(originalQuery))
  IN [i \in DOMAIN order |->
        [id |-> i,
         row |-> AggregateRow(<<>>, columnSpecs, order[i],
                              SelectSeq(data, LAMBDA e :
                                GroupKey(e.row, groupColumn) = order[i]),
                              groupColumn)]]

(***************************************************************************)
(* ORDER BY (applyOrderBy).                                                *)
(***************************************************************************)
(* String.prototype.localeCompare on the strings of the model: the empty string,
   then numerals, then the other strings that start with a digit, then words
   alphabetically with the lower-case form first.  (No column of the model
   holds both numbers and strings that start with a digit other than "7up",
   and no number of the model starts with 8 or 9.) *)
LocaleOrder == <<"2023-06-15", "2024-01-01", "7up",
                 "abc", "engineering", "Engineering", "ENGINEERING", "false",
                 "null", "NULL", "other", "Other", "sales", "Sales", "SALES", "true",
                 "undefined">>

LocaleRank(s) ==
  IF s = "" THEN 0
  ELSE IF \E i \in DOMAIN LocaleOrder : LocaleOrder[i] = s
       THEN MaxInt + 1 + (CHOOSE i \in DOMAIN LocaleOrder : LocaleOrder[i] = s)
       ELSE IF IsIntStr(s) THEN 1 + IntOfStr(s)
       ELSE MaxInt + 2 + Len(LocaleOrder)

Sign(x) == IF x < 0 THEN -1 ELSE IF x > 0 THEN 1 ELSE 0

localeCompare(a, b) == Sign(LocaleRank(a) - LocaleRank(b))

(* new Date(s).getTime(), as a rank, for the date strings of the model. *)
DateRank(v) == IF v.s = "2023-06-15" THEN 1 ELSE 2

(* The column specifiers of the clause, lines 545-551. *)
OrderColumns(orderByClause) ==
  LET specs == SplitComma(orderByClause)
  IN [i \in DOMAIN specs |->
        [column |-> IF specs[i] = <<>> THEN "" ELSE specs[i][1].w,
         direction |-> IF Len(specs[i]) >= 2 /\ toLowerCase(specs[i][2].w) = "desc"
                       THEN "desc" ELSE "asc"]]

RECURSIVE CompareRows(_, _, _)
(* A variant of the comparator in which DESC also turns the place of the missing
   values around. *)
CompareRows_NullsFollowDirection(a, b, orderColumns) ==
  IF orderColumns = <<>> THEN 0
  ELSE
    LET column == Head(orderColumns).column
        direction == Head(orderColumns).direction
        aVal == Get(a, column)
        bVal == Get(b, column)
        aNone == aVal.t \in {"null", "undef"}
        bNone == bVal.t \in {"null", "undef"}
        comparison ==
          IF aNone THEN 1
          ELSE IF bNone THEN -1
          ELSE IF aVal.t = "str" /\ bVal.t = "str" THEN localeCompare(aVal.s, bVal.s)
          ELSE IF aVal.t = "num" /\ bVal.t = "num" THEN aVal.n - bVal.n
          ELSE IF IsDate(aVal) /\ IsDate(bVal) THEN DateRank(aVal) - DateRank(bVal)
          ELSE localeCompare(String(aVal), String(bVal))
    IN IF aNone /\ bNone THEN CompareRows(a, b, Tail(orderColumns))
       ELSE IF comparison # 0
            THEN (IF direction = "desc" THEN -comparison ELSE comparison)
            ELSE CompareRows(a, b, Tail(orderColumns))

(* The comparator of lines 553-584. *)
CompareRows(a, b, orderColumns) ==
  IF orderColumns = <<>> THEN 0
  ELSE
    LET column == Head(orderColumns).column
        direction == Head(orderColumns).direction
        aVal == Get(a, column)
        bVal == Get(b, column)
        aNone == aVal.t \in {"null", "undef"}
        bNone == bVal.t \in {"null", "undef"}
        comparison ==
          IF aVal.t = "str" /\ bVal.t = "str" THEN localeCompare(aVal.s, bVal.s)
          ELSE IF aVal.t = "num" /\ bVal.t = "num" THEN aVal.n - bVal.n
          ELSE IF IsDate(aVal) /\ IsDate(bVal) THEN DateRank(aVal) - DateRank(bVal)
          ELSE localeCompare(String(aVal), String(bVal))
    IN IF aNone /\ bNone THEN CompareRows(a, b, Tail(orderColumns))
       ELSE IF aNone THEN 1
       ELSE IF bNone THEN -1
       ELSE IF comparison # 0
            THEN (IF direction = "desc" THEN -comparison ELSE comparison)
            ELSE CompareRows(a, b, Tail(orderColumns))

(* A variant of the insertion that puts an element before its ties. *)
InsertSorted_BeforeTies(sorted, e, orderColumns) ==
  LET after == {i \in DOMAIN sorted : CompareRows(sorted[i].row, e.row, orderColumns) >= 0}
      at == IF after = {} THEN Len(sorted) + 1 ELSE FirstOf(after)
  IN SubSeq(sorted, 1, at - 1) \o <<e>> \o SubSeq(sorted, at, Len(sorted))

(* The insertion of one element into a sorted array, after the elements that do
   not compare greater. *)
InsertSorted(sorted, e, orderColumns) ==
  LET after == {i \in DOMAIN sorted : CompareRows(sorted[i].row, e.row, orderColumns) > 0}
      at == IF after = {} THEN Len(sorted) + 1 ELSE FirstOf(after)
  IN SubSeq(sorted, 1, at - 1) \o <<e>> \o SubSeq(sorted, at, Len(sorted))

RECURSIVE StableSort(_, _)
(* Array.prototype.sort, which is stable. *)
StableSort(data, orderColumns) ==
  IF data = <<>> THEN <<>>
  ELSE InsertSorted(StableSort(SubSeq(data, 1, Len(data) - 1), orderColumns),
                    data[Len(data)], orderColumns)

(* data.sort(...) sorts the array it is given, in place, and returns it. *)
applyOrderBy(data, orderByClause) == StableSort(data, OrderColumns(orderByClause))

(***************************************************************************)
(* Projection (applyColumnSelection).                                      *)
(***************************************************************************)
RECURSIVE ProjectRow(_, _, _)
ProjectRow(newRow, row, columnSpecs) ==
  IF columnSpecs = <<>> THEN newRow
  ELSE
    LET colSpec == Head(columnSpecs)
        alias == aliasMatch(colSpec)
        columnName == TextOf(colSpec)
        next ==
          IF alias.ok THEN
            IF Has(row, alias.sourceColumn)
            THEN Put(newRow, alias.targetColumn, Get(row, alias.sourceColumn))
            ELSE newRow
          ELSE IF Has(row, columnName)
               THEN Put(newRow, columnName, Get(row, columnName))
               ELSE newRow
    IN ProjectRow(next, row, Tail(columnSpecs))

applyColumnSelection(data, selectClause) ==
  [i \in DOMAIN data |->
     [id |-> i, row |-> ProjectRow(<<>>, data[i].row, SplitComma(selectClause))]]

(***************************************************************************)
(* The query pipeline (executeQuery, parseAndExecuteSQL, executeSelectQuery)*)
(***************************************************************************)
(* query.toLowerCase() *)
Lowered(query) == [i \in DOMAIN query |-> [query[i] EXCEPT !.w = toLowerCase(@)]]

(* The row objects of an array, with their identities. *)
Elements(data) == [i \in DOMAIN data |-> [id |-> i, row |-> data[i]]]

Rows(elements) == [i \in DOMAIN elements |-> elements[i].row]

Ids(elements) == [i \in DOMAIN elements |-> elements[i].id]

(* A variant that hands the stored array itself to the pipeline. *)
SpreadCopy_Alias(data) == [rows |-> Elements(data), alias |-> TRUE]

(* let result = [...table.data]: a new array of the same row objects. *)
SpreadCopy(data) == [rows |-> Elements(data), alias |-> FALSE]

(* Clause boundaries: \s+GROUP\s+BY, \s+ORDER\s+BY and \s+LIMIT at position j. *)
KeywordPair(query, j, first, second) ==
  /\ IsKeyword(query[j], first)
  /\ j + 1 <= Len(query)
  /\ IsKeyword(query[j + 1], second)

IsBoundary(query, j, kinds) ==
  \/ "group" \in kinds /\ KeywordPair(query, j, "group", "by")
  \/ "order" \in kinds /\ KeywordPair(query, j, "order", "by")
  \/ "limit" \in kinds /\ IsKeyword(query[j], "limit")

(* The lazy capture (.+?) that starts at position start: up to the first boundary
   after its first token, or to the end of the text. *)
Capture(query, start, kinds) ==
  LET stop == FirstOf({j \in (start + 1)..Len(query) : IsBoundary(query, j, kinds)})
  IN SubSeq(query, start, IF stop = 0 THEN Len(query) ELSE stop - 1)

NoClause == [ok |-> FALSE, clause |-> <<>>]

(* normalizedQuery.match(/from\s+(\w+)/) *)
fromMatch(query) ==
  LET i == FirstOf({j \in 1..(Len(query) - 1) :
                      IsKeyword(query[j], "from") /\ IsWord(query[j + 1])})
  IN IF i = 0 THEN NoClause ELSE [ok |-> TRUE, clause |-> <<Lowered(query)[i + 1]>>]

(* query.match(/WHERE\s+(.+?)(?:\s+GROUP\s+BY|\s+ORDER\s+BY|\s+LIMIT|$)/i) *)
whereMatch(query) ==
  LET i == FirstOf({j \in 1..(Len(query) - 1) : IsKeyword(query[j], "where")})
  IN IF i = 0 THEN NoClause
     ELSE [ok |-> TRUE, clause |-> Capture(query, i + 1, {"group", "order", "limit"})]

(* query.match(/GROUP\s+BY\s+(.+?)(?:\s+ORDER\s+BY|\s+LIMIT|$)/i) *)
groupByMatch(query) ==
  LET i == FirstOf({j \in 1..(Len(query) - 2) : KeywordPair(query, j, "group", "by")})
  IN IF i = 0 THEN NoClause
     ELSE [ok |-> TRUE, clause |-> Capture(query, i + 2, {"order", "limit"})]

(* normalizedQuery.match(/order\s+by\s+(.+?)(?:\s+limit|$)/) *)
orderByMatch(query) ==
  LET i == FirstOf({j \in 1..(Len(query) - 2) : KeywordPair(query, j, "order", "by")})
  IN IF i = 0 THEN NoClause
     ELSE [ok |-> TRUE, clause |-> Capture(Lowered(query), i + 2, {"limit"})]

(* normalizedQuery.match(/limit\s+(\d+)/) *)
limitMatch(query) ==
  LET i == FirstOf({j \in 1..(Len(query) - 1) :
                      /\ IsKeyword(query[j], "limit")
                      /\ query[j + 1].q = ""
                      /\ StartsWithDigit(query[j + 1].w)})
  IN IF i = 0 THEN NoClause ELSE [ok |-> TRUE, clause |-> <<query[i + 1]>>]

(* parseInt(limitMatch[1]) *)
parseInt(s) == parseFloat(s).v \div Scale

(* query.match(/select\s+(.+?)\s+from/i) *)
selectMatch(query) ==
  LET i == FirstOf({j \in DOMAIN query :
                      /\ IsKeyword(query[j], "select")
                      /\ \E k \in (j + 2)..Len(query) : IsKeyword(query[k], "from")})
      f == FirstOf({k \in (i + 2)..Len(query) : IsKeyword(query[k], "from")})
  IN IF i = 0 THEN NoClause ELSE [ok |-> TRUE, clause |-> SubSeq(query, i + 1, f - 1)]

(* A variant of the slice that takes a limit of zero for no limit. *)
Slice_ZeroIsNoLimit(data, limit) ==
  IF limit = 0 THEN data
  ELSE SubSeq(data, 1, IF limit < Len(data) THEN limit ELSE Len(data))

(* result.slice(0, limit) *)
Slice(data, limit) == SubSeq(data, 1, IF limit < Len(data) THEN limit ELSE Len(data))

(* A failure: nothing is returned and the store is as it was. *)
Failure(kind, store) == [kind |-> kind, rows |-> <<>>, store |-> store]

(* The steps of executeSelectQuery on the table found.  A step takes and gives
   [rows, alias, stored]: the result array, whether it is the stored array
   itself, and the stored array (the sort is the one step that writes into the
   array it is given). *)
Started(data) ==
  LET copy == SpreadCopy(data)
  IN [rows |-> copy.rows, alias |-> copy.alias, stored |-> data]

Filter(st, w) == [st EXCEPT !.rows = w.rows, !.alias = st.alias /\ w.same]

(* lines 222-227 *)
WhereStep(query, st) ==
  LET where == whereMatch(query)
  IN IF where.ok THEN Filter(st, applyWhereClause(st.rows, where.clause)) ELSE st

(* lines 229-234 *)
GroupByStep(query, st) ==
  LET groupBy == groupByMatch(query)
  IN IF groupBy.ok
     THEN [st EXCEPT !.rows = applyGroupBy(st.rows, groupBy.clause, query),
                     !.alias = FALSE]
     ELSE st

Sorted(st, sorted) ==
  [st EXCEPT !.rows = sorted,
             !.stored = IF st.alias THEN Rows(sorted) ELSE st.stored]

(* lines 236-241 *)
OrderByStep(query, st) ==
  LET orderBy == orderByMatch(query)
  IN IF orderBy.ok THEN Sorted(st, applyOrderBy(st.rows, orderBy.clause)) ELSE st

(* lines 243-248 *)
LimitStep(query, st) ==
  LET limit == limitMatch(query)
  IN IF limit.ok
     THEN [st EXCEPT !.rows = Slice(st.rows, parseInt(limit.clause[1].w)),
                     !.alias = FALSE]
     ELSE st

(* lines 250-257 *)
SelectStep(query, st) ==
  LET select == selectMatch(query)
  IN IF select.ok /\ select.clause # <<W("*")>>
     THEN [st EXCEPT !.rows = applyColumnSelection(st.rows, select.clause),
                     !.alias = FALSE]
     ELSE st

RunPipeline(query, data) ==
  SelectStep(query,
    LimitStep(query,
      OrderByStep(query,
        GroupByStep(query,
          WhereStep(query, Started(data))))))

(* The table of a store, or none: this.tables.get(tableName). *)
HasTable(store, tableName) == tableName \in DOMAIN store

Returned(store, tableName, st) ==
  [kind |-> "Rows", rows |-> st.rows,
   store |-> [store EXCEPT ![tableName].data = st.stored]]

executeSelectQuery(query, store) ==
  LET from == fromMatch(query)
      tableName == from.clause[1].w
  IN IF ~from.ok THEN Failure("MissingFromClause", store)
     ELSE IF ~HasTable(store, tableName) THEN Failure("UnknownTable", store)
     ELSE Returned(store, tableName, RunPipeline(query, store[tableName].data))

(* normalizedQuery.startsWith('select') on the trimmed text. *)
StartsWithSelect(query) ==
  /\ query # <<>>
  /\ query[1].q = ""
  /\ toLowerCase(query[1].w) \in {"select", "selected"}

parseAndExecuteSQL(query, store) ==
  IF StartsWithSelect(query) THEN executeSelectQuery(query, store)
  ELSE Failure("UnsupportedStatement", store)

(* A variant of executeQuery that looks at the statement before the flag. *)
executeQuery_ParseFirst(query, init, store) ==
  IF ~StartsWithSelect(query) THEN Failure("UnsupportedStatement", store)
  ELSE IF ~init THEN Failure("NotInitialized", store)
  ELSE parseAndExecuteSQL(query, store)

(* The outcome of SQLEngine.executeQuery in a store: the catch clause rethrows a
   failure under a longer message, its kind is the same. *)
executeQuery(query, init, store) ==
  IF ~init THEN Failure("NotInitialized", store)
  ELSE parseAndExecuteSQL(query, store)

(* A variant of getTableSchema that fails on an absent table. *)
getTableSchema_AbsentFails(tableName, init, store) ==
  IF ~init THEN [kind |-> "NotInitialized", columns |-> <<>>]
  ELSE IF ~HasTable(store, tableName) THEN [kind |-> "UnknownTable", columns |-> <<>>]
  ELSE [kind |-> "Columns", columns |-> store[tableName].columns]

(* The outcome of SQLEngine.getTableSchema. *)
getTableSchema(tableName, init, store) ==
  IF ~init THEN [kind |-> "NotInitialized", columns |-> <<>>]
  ELSE IF ~HasTable(store, tableName) THEN [kind |-> "Columns", columns |-> <<>>]
  ELSE [kind |-> "Columns", columns |-> store[tableName].columns]

(* SQLEngine.getRowCount *)
getRowCount(tableName, init, store) ==
  IF ~init THEN 0
  ELSE IF HasTable(store, tableName) THEN Len(store[tableName].data) ELSE 0

(***************************************************************************)
(* Inputs: the row arrays the file parsers hand over, and the query texts. *)
(***************************************************************************)
Row2(dept, age) == <<Entry("dept", dept), Entry("age", age)>>

FileEmpty == <<>>

FileStaff ==
  <<Row2(Str("Engineering"), Num(35)), Row2(Str("Sales"), Num(28)),
    Row2(Str("engineering"), Num(41))>>

FileTwins ==
  <<Row2(Str("Sales"), Num(50)), Row2(Str("Sales"), Num(50)),
    Row2(Str(""), Str("7up"))>>

FileFlags == <<Row2(Str("TRUE"), Num(1)), Row2(Str("false"), Num(0))>>

FileShort == <<Row2(Str("Other"), Num(30)), <<Entry("dept", Str("Sales"))>>>>

Files == {FileEmpty, FileStaff, FileTwins}

Words(ws) == [i \in DOMAIN ws |-> W(ws[i])]

SelectStar == Words(<<"SELECT", "*", "FROM", "dataset">>)

StoreQueries ==
  { SelectStar,
    Words(<<"select", "*", "from", "Dataset">>),
    Words(<<"SELECT", "*", "FROM", "other">>),
    Words(<<"DELETE", "FROM", "dataset">>),
    Words(<<"DELETE">>),
    Words(<<"SELECT", "*">>),
    Words(<<"SELECT", "*", "FROM">>),
    Words(<<"SELECT", "*", "FROM", "dataset", "ORDER", "BY", "age", "DESC">>),
    Words(<<"SELECT", "*", "FROM", "dataset", "WHERE", "dept", "IS", "NOT", "NULL",
            "ORDER", "BY", "dept", "LIMIT", "2">>),
    Words(<<"SELECT", "dept", ",", "COUNT(*)", "AS", "c", "FROM", "dataset", "WHERE",
            "age", ">", "30", "GROUP", "BY", "dept", "ORDER", "BY", "c", "DESC",
            "LIMIT", "1">>),
    Words(<<"SELECT", "age", "AS", "a", "FROM", "dataset", "WHERE", "something",
            "ORDER", "BY", "age">>) }

TableArgs == {"dataset", "other"}

(***************************************************************************)
(* The store and its operations.                                           *)
(***************************************************************************)
(* new Map() *)
EmptyStore == [n \in {} |-> 0]

NoTable == [name |-> "", columns |-> <<>>, data |-> <<>>]

(* this.tables.set(tableName, table) *)
SetTable(store, tableName, table) ==
  [n \in DOMAIN store \cup {tableName} |-> IF n = tableName THEN table ELSE store[n]]

Procs == 1..NumProcs

Idle == [pc |-> "idle", file |-> <<>>, preInit |-> FALSE]

NoCall == [op |-> "none", kind |-> "", query |-> <<>>, table |-> "", preInit |-> FALSE,
           data |-> <<>>]

(* The load that was called last since the store was last reset, as long as
   it has not failed: the process that runs it and the rows of its file.  The
   variable lastStarted records the order of the calls, which the engine
   itself keeps nowhere; only SpecLoads writes it. *)
NoLoad == [proc |-> 0, file |-> <<>>]

LoadOf(p, file) == [proc |-> p, file |-> file]

(* The load of p has failed: it is forgotten when it was the last one called. *)
Failed(p) == IF lastStarted.proc = p THEN NoLoad ELSE lastStarted

Init ==
  /\ initialized = FALSE
  /\ tables = EmptyStore
  /\ procs = [p \in Procs |-> Idle]
  /\ lastCall = NoCall
  /\ loaded = NoTable
  /\ loadBegun = FALSE
  /\ lastStarted = NoLoad

(* loadCSVFile / loadExcelFile / loadSampleData up to their first await on the
   parser: initialize() has run. *)
LoadStart(p, file) ==
  /\ procs[p].pc = "idle"
  /\ initialized' = TRUE
  /\ tables' = IF initialized THEN tables ELSE EmptyStore
  /\ loaded' = IF initialized THEN loaded ELSE NoTable
  /\ procs' = [procs EXCEPT ![p] = [pc |-> "parsing", file |-> file,
                                    preInit |-> initialized]]
  /\ lastCall' = [NoCall EXCEPT !.op = "load", !.kind = "Pending"]
  /\ loadBegun' = TRUE

(* The parser has resolved: createTableFromData runs to its end. *)
LoadStore(p) ==
  /\ procs[p].pc = "parsing"
  /\ procs' = [procs EXCEPT ![p] = Idle]
  /\ IF procs[p].file = <<>>
     THEN /\ lastCall' = [NoCall EXCEPT !.op = "load", !.kind = "EmptyDataset",
                                        !.preInit = procs[p].preInit]
          /\ UNCHANGED <<tables, loaded>>
     ELSE /\ tables' = SetTable(tables, "dataset", createTable(procs[p].file, "dataset"))
          /\ loaded' = createTable(procs[p].file, "dataset")
          /\ lastCall' = [NoCall EXCEPT !.op = "load", !.kind = "Loaded",
                                        !.preInit = procs[p].preInit]
  /\ UNCHANGED <<initialized, loadBegun>>

(* The parser has rejected (a CSV parsing error, an unreadable file). *)
LoadParseError(p) ==
  /\ procs[p].pc = "parsing"
  /\ procs' = [procs EXCEPT ![p] = Idle]
  /\ lastCall' = [NoCall EXCEPT !.op = "load", !.kind = "ParseError",
                                !.preInit = procs[p].preInit]
  /\ UNCHANGED <<initialized, tables, loaded, loadBegun>>

(* A variant of reset that forgets to clear the initialized flag. *)
Reset_KeepsFlag ==
  /\ tables' = EmptyStore
  /\ loaded' = NoTable
  /\ loadBegun' = FALSE
  /\ lastCall' = [NoCall EXCEPT !.op = "reset"]
  /\ UNCHANGED <<initialized, procs>>

Reset ==
  /\ tables' = EmptyStore
  /\ initialized' = FALSE
  /\ loaded' = NoTable
  /\ loadBegun' = FALSE
  /\ lastCall' = [NoCall EXCEPT !.op = "reset"]
  /\ UNCHANGED procs

ExecuteQuery(query) ==
  LET out == executeQuery(query, initialized, tables)
  IN /\ tables' = out.store
     /\ lastCall' = [NoCall EXCEPT !.op = "executeQuery", !.kind = out.kind,
                                   !.query = query]
     /\ UNCHANGED <<initialized, procs, loaded, loadBegun, lastStarted>>

GetTableSchema(tableName) ==
  /\ lastCall' = [NoCall EXCEPT !.op = "getTableSchema", !.table = tableName,
                    !.kind = getTableSchema(tableName, initialized, tables).kind]
  /\ UNCHANGED <<initialized, tables, procs, loaded, loadBegun, lastStarted>>

GetRowCount(tableName) ==
  /\ lastCall' = [NoCall EXCEPT !.op = "getRowCount", !.table = tableName,
                                !.kind = "Count"]
  /\ UNCHANGED <<initialized, tables, procs, loaded, loadBegun, lastStarted>>

(* The load operations and reset say nothing of lastStarted: a specification
   either leaves it alone or records the calls in it (SpecLoads). *)
Next ==
  \/ \E p \in Procs, file \in Files : LoadStart(p, file) /\ UNCHANGED lastStarted
  \/ \E p \in Procs : LoadStore(p) /\ UNCHANGED lastStarted
  \/ \E p \in Procs : LoadParseError(p) /\ UNCHANGED lastStarted
  \/ Reset /\ UNCHANGED lastStarted
  \/ \E query \in StoreQueries : ExecuteQuery(query)
  \/ \E tableName \in TableArgs : GetTableSchema(tableName)
  \/ \E tableName \in TableArgs : GetRowCount(tableName)

Spec == Init /\ [][Next]_vars

(***************************************************************************)
(* WHERE queries on a loaded table.                                        *)
(***************************************************************************)
LeafAgeOver == Words(<<"age", ">", "30">>)
LeafDeptIs == <<W("dept"), W("="), L("engineering")>>
LeafDeptNot == <<W("dept"), W("!="), L("sales")>>
LeafBetween == Words(<<"age", "BETWEEN", "20", "AND", "40">>)
LeafNull == Words(<<"dept", "IS", "NULL">>)
LeafAgeIs == Words(<<"age", "=", "50">>)
LeafAgeUnder == Words(<<"age", "<", "30">>)

Leaves == {LeafAgeOver, LeafDeptIs, LeafDeptNot, LeafBetween, LeafNull, LeafAgeIs}

Joined(left, kw, right) == left \o <<W(kw)>> \o right

(* The operands of OR: leaves and AND chains. *)
Operands ==
  Leaves \cup {Joined(a, "AND", b) : a, b \in {LeafAgeOver, LeafDeptIs, LeafDeptNot}}

ComparisonColumns == {"dept", "age"}

EqualityOperators == {"=", "!=", "<>"}

Literals == {L("engineering"), L("SALES"), L("sales"), L("abc"), L("50"), L("7up"),
             L("TRUE"), L("null"), W("50"), W("35")}

QWhere(expression) == SelectStar \o <<W("WHERE")>> \o expression

WhereQueries ==
  {QWhere(Joined(Joined(a, "AND", b), "OR", c)) : a, b, c \in Leaves}
  \cup {QWhere(Joined(a, "AND", b)) : a, b \in Leaves}
  \cup {QWhere(Joined(x, "OR", y)) : x, y \in Operands}
  \cup {QWhere(Joined(LeafAgeUnder, "OR", y)) : y \in Leaves}
  \cup {QWhere(Joined(a, kw, b)) : a, b \in Leaves, kw \in {"and", "or"}}
  \cup {QWhere(<<W(column), W(operator), literal>>) :
          column \in ComparisonColumns, operator \in EqualityOperators,
          literal \in Literals}

WhereFiles == {FileStaff, FileTwins, FileFlags, FileShort}

(* The store after one successful load. *)
InitWhere ==
  \E file \in WhereFiles :
    /\ initialized = TRUE
    /\ tables = SetTable(EmptyStore, "dataset", createTable(file, "dataset"))
    /\ procs = [p \in Procs |-> Idle]
    /\ lastCall = [NoCall EXCEPT !.op = "load", !.kind = "Loaded"]
    /\ loaded = createTable(file, "dataset")
    /\ loadBegun = TRUE
    /\ lastStarted = NoLoad

(* Each behaviour applies one query to the table the load left. *)
NextWhere == lastCall.op = "load" /\ \E query \in WhereQueries : ExecuteQuery(query)

SpecWhere == InitWhere /\ [][NextWhere]_vars

(***************************************************************************)
(* Properties of the store (checked under Spec).                           *)
(***************************************************************************)

(* The outcome of the call recorded in lastCall, on the store as it is now. *)
LastOutcome == executeQuery(lastCall.query, initialized, tables)

(* C1: a query never changes the stored table: whatever query runs, and
   whether it returns rows or fails, the table in the store afterwards holds
   the rows of the load that stored it, in the same order, and the store the
   query leaves is the store it found. *)
C1_QueriesLeaveStoreUnchanged ==
  /\ HasTable(tables, "dataset") => tables["dataset"] = loaded
  /\ \A query \in StoreQueries : executeQuery(query, initialized, tables).store = tables

(* C1 witness: an ORDER BY query has returned the rows in an order that is
   not the stored order, and the stored table is still the loaded one. *)
C1_Witness ==
  /\ lastCall.op = "executeQuery"
  /\ lastCall.kind = "Rows"
  /\ orderByMatch(lastCall.query).ok
  /\ Rows(LastOutcome.rows) # tables["dataset"].data
  /\ tables["dataset"] = loaded

(* C2: while the store is uninitialized (no load has been started since
   construction or since the last reset) executeQuery and getTableSchema fail
   with NotInitialized for every argument; a call of either that does not
   fail with NotInitialized has a load before it. *)
C2_UninitializedCallsFail ==
  /\ ~loadBegun =>
       /\ \A query \in StoreQueries :
            executeQuery(query, initialized, tables).kind = "NotInitialized"
       /\ \A tableName \in TableArgs :
            getTableSchema(tableName, initialized, tables).kind = "NotInitialized"
  /\ (lastCall.op \in {"executeQuery", "getTableSchema"}
        /\ lastCall.kind # "NotInitialized") => loadBegun

(* C2 witness: a query has failed with NotInitialized after a reset, although
   a table is in the store. *)
C2_Witness ==
  /\ ~loadBegun
  /\ HasTable(tables, "dataset")
  /\ lastCall.op = "executeQuery"
  /\ lastCall.kind = "NotInitialized"

(* C3: a load whose parsed data has no rows fails with EmptyDataset and
   leaves the initialized flag as it was when the load was called; in
   particular, on a store that was uninitialized, queries after the failed
   load still fail with NotInitialized. *)
C3_EmptyLoadLeavesStore ==
  (lastCall.op = "load" /\ lastCall.kind = "EmptyDataset") =>
    /\ initialized = lastCall.preInit
    /\ ~lastCall.preInit =>
         \A query \in StoreQueries :
           executeQuery(query, initialized, tables).kind = "NotInitialized"

(* C4: in every state where the table exists, SELECT * FROM dataset returns
   the rows of the most recent successful load, and as many rows as
   getRowCount reports. *)
C4_SelectStarReturnsLoadedRows ==
  HasTable(tables, "dataset") =>
    LET out == executeQuery(SelectStar, initialized, tables)
    IN /\ out.kind = "Rows"
       /\ Rows(out.rows) = loaded.data
       /\ Len(out.rows) = getRowCount("dataset", initialized, tables)

(* C5: an uninitialized store holds no table, under any interleaving of
   loads and resets. *)
C5_NoTableSurvivesReset == ~initialized => tables = EmptyStore

(* C6 as stated: getTableSchema returns the columns of the table when it
   exists and an empty list, never a failure, in every state where the named
   table is absent. *)
C6_AbsentTableGivesEmptyList ==
  \A tableName \in TableArgs :
    LET out == getTableSchema(tableName, initialized, tables)
    IN /\ out.kind = "Columns"
       /\ ~HasTable(tables, tableName) => out.columns = <<>>

(* C6: on an uninitialized store getTableSchema fails with NotInitialized;
   on an initialized store it returns the columns in schema order (the keys
   of the first stored row, in their order) when the table exists, and an
   empty list, not a failure, when the named table is absent. *)
C6_SchemaOfInitializedStore ==
  \A tableName \in TableArgs :
    LET out == getTableSchema(tableName, initialized, tables)
    IN IF ~initialized THEN out.kind = "NotInitialized"
       ELSE /\ out.kind = "Columns"
            /\ IF HasTable(tables, tableName)
               THEN [i \in DOMAIN out.columns |-> out.columns[i].name]
                      = Keys(tables[tableName].data[1])
               ELSE out.columns = <<>>

(* C6 witness: getTableSchema has returned a list for a table that an
   initialized store does not hold, next to a table that it holds. *)
C6_Witness ==
  /\ initialized
  /\ lastCall.op = "getTableSchema"
  /\ lastCall.kind = "Columns"
  /\ ~HasTable(tables, lastCall.table)
  /\ HasTable(tables, "dataset")

(* The outcome the order of the checks gives a query: the first check that
   fails decides. The named table is the word after FROM as the engine reads
   it. *)
C7_Expected(query) ==
  IF ~initialized THEN "NotInitialized"
  ELSE IF ~StartsWithSelect(query) THEN "UnsupportedStatement"
  ELSE IF ~fromMatch(query).ok THEN "MissingFromClause"
  ELSE IF ~HasTable(tables, TextOf(fromMatch(query).clause)) THEN "UnknownTable"
  ELSE "Rows"

(* C7: a query has exactly one outcome, decided in this order:
   NotInitialized on an uninitialized store, else UnsupportedStatement when
   the query does not begin with SELECT, else MissingFromClause when it has
   no FROM clause, else UnknownTable when the named table is absent, else
   rows; a failure returns no rows. *)
C7_OutcomeInCheckOrder ==
  \A query \in StoreQueries :
    LET out == executeQuery(query, initialized, tables)
    IN /\ out.kind = C7_Expected(query)
       /\ out.kind # "Rows" => out.rows = <<>>

(* C7 witness: on an initialized store that holds a table, a query that is
   not a SELECT and has no FROM clause has failed with UnsupportedStatement. *)
C7_Witness ==
  /\ initialized
  /\ HasTable(tables, "dataset")
  /\ lastCall.op = "executeQuery"
  /\ lastCall.kind = "UnsupportedStatement"
  /\ ~fromMatch(lastCall.query).ok

(***************************************************************************)
(* Properties of WHERE (checked under SpecWhere).                          *)
(***************************************************************************)

(* The stored rows, as the pipeline sees them. *)
StoredElements == Elements(tables["dataset"].data)

(* The stored rows that WHERE x alone keeps. *)
Satisfying(x) == Range(Ids(applyWhereClause(StoredElements, x).rows))

(* The stored rows the last query returned. *)
ResultIds == Ids(LastOutcome.rows)

NoDuplicates(seq) == Cardinality(Range(seq)) = Len(seq)

(* The stored rows in S, in stored order. *)
InStoredOrder(S) == SelectSeq(Ids(StoredElements), LAMBDA i : i \in S)

(* C8: AND binds tighter than OR: WHERE A AND B OR C returns the rows kept
   by both A and B, together with the rows kept by C, each once; an AND
   chain returns the rows kept by every operand, in stored order. *)
C8_AndBindsTighter ==
  /\ \A a, b, c \in Leaves :
       lastCall.query = QWhere(Joined(Joined(a, "AND", b), "OR", c)) =>
         /\ Range(ResultIds) = (Satisfying(a) \cap Satisfying(b)) \cup Satisfying(c)
         /\ NoDuplicates(ResultIds)
  /\ \A a, b \in Leaves :
       lastCall.query = QWhere(Joined(a, "AND", b)) =>
         ResultIds = InStoredOrder(Satisfying(a) \cap Satisfying(b))

(* C8 witness: a query A AND B OR C whose result differs from what
   A AND (B OR C) would keep. *)
C8_Witness ==
  \E a, b, c \in Leaves :
    /\ lastCall.query = QWhere(Joined(Joined(a, "AND", b), "OR", c))
    /\ lastCall.kind = "Rows"
    /\ Range(ResultIds) # Satisfying(a) \cap (Satisfying(b) \cup Satisfying(c))
    /\ Satisfying(a) \cap Satisfying(b) # {}

(* C9: WHERE X OR Y returns the union of what X and Y each keep of the
   stored rows: a stored row is in the result iff one of the operands keeps
   it, it is there once even when both keep it, and two stored rows of equal
   content are both there when both are kept. *)
C9_OrIsUnion ==
  \A x, y \in Operands :
    lastCall.query = QWhere(Joined(x, "OR", y)) =>
      /\ Range(ResultIds) = Satisfying(x) \cup Satisfying(y)
      /\ NoDuplicates(ResultIds)

(* C9 witness: both operands keep a common row, and the result holds two
   stored rows of equal content. *)
C9_Witness ==
  \E x, y \in Operands :
    /\ lastCall.query = QWhere(Joined(x, "OR", y))
    /\ lastCall.kind = "Rows"
    /\ Satisfying(x) \cap Satisfying(y) # {}
    /\ \E i, j \in Range(ResultIds) :
         i # j /\ tables["dataset"].data[i] = tables["dataset"].data[j]

(* Equality as the comparison leaf defines it: of numbers when both sides
   parse as numbers, of lower-cased texts otherwise. *)
C10_Equal(rowValue, literal) ==
  LET rowNum == parseFloat(String(rowValue))
      valNum == parseFloat(literal)
  IN IF rowNum.ok /\ valNum.ok THEN rowNum.v = valNum.v
     ELSE toLowerCase(String(rowValue)) = toLowerCase(literal)

(* C10: WHERE column = literal keeps exactly the rows whose value equals
   the literal, as numbers when both sides parse as numbers and as texts
   without regard to case otherwise; != and <> keep exactly the others. *)
C10_EqualityIgnoresCase ==
  \A column \in ComparisonColumns, operator \in EqualityOperators, literal \in Literals :
    lastCall.query = QWhere(<<W(column), W(operator), literal>>) =>
      ResultIds = InStoredOrder(
        {i \in DOMAIN tables["dataset"].data :
           C10_Equal(Get(tables["dataset"].data[i], column), literal.w)
             <=> (operator = "=")})

(* C10 witness: dept = 'engineering' has kept a row whose dept is stored
   as Engineering. *)
C10_Witness ==
  /\ lastCall.query = QWhere(LeafDeptIs)
  /\ \E i \in Range(ResultIds) :
       Get(tables["dataset"].data[i], "dept") = Str("Engineering")

(***************************************************************************)
(* Properties of the clauses of a query (checked under SpecQuery).         *)
(***************************************************************************)

(* Conditions that none of the five leaf patterns matches. *)
NoOpConditions ==
  { Words(<<"something">>),
    Words(<<"(", "something", ")">>),
    <<W("dept"), W("LIKE"), L("abc")>>,
    Words(<<"age", "BETWEEN", "20">>),
    Words(<<"dept", "IS", "missing">>) }

NoOpQueries ==
  {QWhere(x) : x \in NoOpConditions}
  \cup {QWhere(Joined(x, "AND", leaf)) : x \in NoOpConditions, leaf \in Leaves}

(* No leaf pattern matches the condition. *)
MatchesNoPattern(condition) ==
  LET c == StripParens(condition)
  IN /\ ~likeMatch(c).ok
     /\ ~inMatch(c).ok
     /\ ~betweenMatch(c).ok
     /\ ~nullMatch(c).ok
     /\ ~comparisonMatch(c).ok

(* C11: a WHERE condition that none of the leaf patterns matches is a no-op
   filter: the query returns rows, not a failure, and they are the stored
   rows in stored order; as an operand of AND it leaves the rows of the other
   operand as they are. *)
C11_UnmatchedConditionIsNoOp ==
  \A x \in NoOpConditions :
    /\ MatchesNoPattern(x)
    /\ lastCall.query = QWhere(x) =>
         /\ LastOutcome.kind = "Rows"
         /\ ResultIds = Ids(StoredElements)
         /\ Rows(LastOutcome.rows) = tables["dataset"].data
    /\ \A leaf \in Leaves :
         lastCall.query = QWhere(Joined(x, "AND", leaf)) =>
           /\ LastOutcome.kind = "Rows"
           /\ ResultIds = Ids(applyWhereClause(StoredElements, leaf).rows)

(* C11 witness: a query whose condition has the LIKE keyword but no pattern
   between percent signs has returned all the rows of a table of three. *)
C11_Witness ==
  /\ lastCall.query = QWhere(<<W("dept"), W("LIKE"), L("abc")>>)
  /\ lastCall.kind = "Rows"
  /\ Len(LastOutcome.rows) = 3

(* Queries that LIMIT is put after. *)
LimitBases ==
  { SelectStar,
    QWhere(LeafAgeOver),
    SelectStar \o Words(<<"ORDER", "BY", "age", "DESC">>),
    Words(<<"SELECT", "dept", ",", "COUNT(*)", "AS", "c", "FROM", "dataset",
            "GROUP", "BY", "dept">>),
    Words(<<"SELECT", "dept", "FROM", "dataset", "WHERE", "dept", "IS", "NOT",
            "NULL", "ORDER", "BY", "dept">>) }

Limits == {0, 1, 2, 5}

WithLimit(base, n) == base \o <<W("LIMIT"), W(ToString(n))>>

LimitQueries == LimitBases \cup {WithLimit(base, n) : base \in LimitBases, n \in Limits}

Min(a, b) == IF a < b THEN a ELSE b

(* C12: base LIMIT n returns the first min(n, m) of the m rows that base
   returns, in their order, for n = 0 as well; a query without LIMIT, WHERE
   and GROUP BY returns as many rows as the table holds. *)
C12_LimitKeepsFirstRows ==
  /\ \A base \in LimitBases, n \in Limits :
       lastCall.query = WithLimit(base, n) =>
         LET all == Rows(executeQuery(base, initialized, tables).rows)
         IN /\ LastOutcome.kind = "Rows"
            /\ Len(LastOutcome.rows) = Min(n, Len(all))
            /\ Rows(LastOutcome.rows) = SubSeq(all, 1, Min(n, Len(all)))
  /\ lastCall.query \in {SelectStar, SelectStar \o Words(<<"ORDER", "BY", "age", "DESC">>)} =>
       Len(LastOutcome.rows) = Len(tables["dataset"].data)

(* C12 witness: LIMIT 2 after a descending sort of three rows has returned
   two rows, and they are not the first two stored rows. *)
C12_Witness ==
  /\ lastCall.query = WithLimit(SelectStar \o Words(<<"ORDER", "BY", "age", "DESC">>), 2)
  /\ Len(tables["dataset"].data) = 3
  /\ Len(LastOutcome.rows) = 2
  /\ Rows(LastOutcome.rows) # SubSeq(tables["dataset"].data, 1, 2)

(* A table whose dept column holds the text NULL, an empty cell and a row
   without the cell. *)
FileNulls ==
  <<Row2(Str("NULL"), Num(10)), Row2(Str(""), Num(20)), Row2(Str("Sales"), Num(30)),
    <<Entry("age", Num(40))>>>>

GroupColumns == {"dept", "age"}

CountQuery(column) ==
  Words(<<"SELECT", column, ",", "COUNT(*)", "AS", "c", "FROM", "dataset">>)

GroupedBy(query, column) == query \o Words(<<"GROUP", "BY", column>>)

GroupCountQueries ==
  {GroupedBy(CountQuery(column), column) : column \in GroupColumns}
  \cup {GroupedBy(CountQuery(column) \o <<W("WHERE")>> \o leaf, column) :
          column \in GroupColumns, leaf \in Leaves}

(* The rows that pass the WHERE clause of the last query (all the stored rows
   when it has none). *)
PassedWhere ==
  LET where == whereMatch(lastCall.query)
  IN IF where.ok THEN Rows(applyWhereClause(StoredElements, where.clause).rows)
     ELSE tables["dataset"].data

IsGroupCountQuery(column) ==
  \/ lastCall.query = GroupedBy(CountQuery(column), column)
  \/ \E leaf \in Leaves :
       lastCall.query = GroupedBy(CountQuery(column) \o <<W("WHERE")>> \o leaf, column)

(* C13 as stated: a GROUP BY query returns as many rows as the grouping
   column has distinct values among the rows that passed WHERE, the Null,
   missing and empty values counting as one value. *)
C13_OneRowPerDistinctValue ==
  \A column \in GroupColumns :
    IsGroupCountQuery(column) =>
      Len(LastOutcome.rows) =
        Cardinality({IF IsBlank(Get(PassedWhere[i], column)) THEN Null
                     ELSE Get(PassedWhere[i], column) : i \in DOMAIN PassedWhere})

(* C13: a GROUP BY query returns as many rows as there are distinct
   partition keys among the rows that passed WHERE; the key of a row is the
   string form of its value of the grouping column, and "NULL" for a Null,
   missing or empty value, so that the text NULL and the missing values make
   one group. *)
C13_OneRowPerPartitionKey ==
  \A column \in GroupColumns :
    IsGroupCountQuery(column) =>
      /\ LastOutcome.kind = "Rows"
      /\ Len(LastOutcome.rows) =
           Cardinality({IF IsBlank(Get(PassedWhere[i], column)) THEN "NULL"
                        ELSE String(Get(PassedWhere[i], column)) :
                          i \in DOMAIN PassedWhere})

(* C13 witness: grouping four rows by dept, one with the text NULL, one with
   a Null and one without the column, has returned two rows. *)
C13_Witness ==
  /\ lastCall.query = GroupedBy(CountQuery("dept"), "dept")
  /\ tables["dataset"].data = createTable(FileNulls, "dataset").data
  /\ Len(LastOutcome.rows) = 2

(* The example table of the aggregation scenario, with smaller numbers. *)
FileTeam ==
  <<Row2(Str("Engineering"), Num(30)), Row2(Str("Engineering"), Num(50)),
    Row2(Str("Sales"), Num(20))>>

AvgQuery ==
  Words(<<"SELECT", "dept", ",", "AVG(age)", "AS", "a", "FROM", "dataset",
          "GROUP", "BY", "dept", "ORDER", "BY", "a", "DESC">>)

AggregateQueries == {AvgQuery}

(* C14: the rows a GROUP BY query returns carry every aggregate of the
   SELECT list under its alias: the example query returns the mean of each
   department under the alias, highest first, and the counts of a grouped
   query are there under their alias c and sum to the number of filtered
   rows. *)
C14_AggregatesUnderAlias ==
  /\ (lastCall.query = AvgQuery
        /\ tables["dataset"].data = createTable(FileTeam, "dataset").data) =>
       Rows(LastOutcome.rows) =
         << <<Entry("dept", Str("Engineering")), Entry("a", Num(40))>>,
            <<Entry("dept", Str("Sales")), Entry("a", Num(20))>> >>
  /\ \A column \in GroupColumns :
       IsGroupCountQuery(column) =>
         /\ \A i \in DOMAIN LastOutcome.rows : Has(LastOutcome.rows[i].row, "c")
         /\ SumOf(LastOutcome.rows, "c") = Len(PassedWhere) * Scale

(* ORDER BY clauses of one and of two keys; a direction is "", ASC or DESC. *)
Directions == {"", "ASC", "DESC"}

OrderKey(column, direction) == [column |-> column, direction |-> direction]

OrderKeys ==
  {<<OrderKey(c, d)>> : c \in GroupColumns, d \in Directions}
  \cup {<<OrderKey(cs[1], d1), OrderKey(cs[2], d2)>> :
          cs \in {<<"dept", "age">>, <<"age", "dept">>},
          d1 \in Directions, d2 \in Directions}

KeyText(key) ==
  IF key.direction = "" THEN <<W(key.column)>>
  ELSE <<W(key.column), W(key.direction)>>

OrderedBy(keys) ==
  SelectStar \o Words(<<"ORDER", "BY">>) \o KeyText(keys[1])
  \o (IF Len(keys) = 2 THEN <<W(",")>> \o KeyText(keys[2]) ELSE <<>>)

OrderQueries == {OrderedBy(keys) : keys \in OrderKeys}

(* The comparison of two rows on one key, ascending. *)
KeyComparison(a, b, column) ==
  CompareRows(a, b, <<[column |-> column, direction |-> "asc"]>>)

IsNone(row, column) == Get(row, column).t \in {"null", "undef"}

(* The comparison of two rows on one key of the clause: DESC negates it,
   except where a missing value decides. *)
Directed(a, b, key) ==
  IF key.direction = "DESC" /\ ~IsNone(a, key.column) /\ ~IsNone(b, key.column)
  THEN -KeyComparison(a, b, key.column)
  ELSE KeyComparison(a, b, key.column)

(* Element x may stand before element y under the keys: the first key on
   which they differ puts x first, and when none does x was first before
   the sort. *)
MayPrecede(x, y, keys) ==
  LET differ == {k \in DOMAIN keys : KeyComparison(x.row, y.row, keys[k].column) # 0}
  IN IF differ = {} THEN x.id < y.id
     ELSE Directed(x.row, y.row, keys[FirstOf(differ)]) < 0

(* C15: ORDER BY is a stable sort on several keys: the result holds the
   stored rows, each once; of two rows the one that comes first is decided
   by the leftmost key on which they differ, with DESC negating that key's
   comparison only; rows that tie on every key keep their stored order. *)
C15_StableMultiKeySort ==
  \A keys \in OrderKeys :
    lastCall.query = OrderedBy(keys) =>
      /\ LastOutcome.kind = "Rows"
      /\ Range(ResultIds) = Range(Ids(StoredElements))
      /\ NoDuplicates(ResultIds)
      /\ \A i, j \in DOMAIN LastOutcome.rows :
           i < j => MayPrecede(LastOutcome.rows[i], LastOutcome.rows[j], keys)

(* C15 witness: the table of the twins sorted by age DESC: the row that
   compares greater has moved to the front and the twins, tied on the key,
   are in their stored order. *)
C15_Witness ==
  /\ lastCall.query = OrderedBy(<<OrderKey("age", "DESC")>>)
  /\ tables["dataset"].data = createTable(FileTwins, "dataset").data
  /\ ResultIds = <<3, 1, 2>>

(* C16: in ORDER BY a row whose value of the first key is Null or absent
   comes after every row that has a value for it, for ASC and for DESC; two
   rows that both lack the first key are equal on it, and the second key
   decides between them. *)
C16_NullsSortLast ==
  \A keys \in OrderKeys :
    lastCall.query = OrderedBy(keys) =>
      \A i, j \in DOMAIN LastOutcome.rows :
        i < j =>
          LET x == LastOutcome.rows[i]
              y == LastOutcome.rows[j]
          IN /\ IsNone(x.row, keys[1].column) => IsNone(y.row, keys[1].column)
             /\ (Len(keys) = 2 /\ IsNone(x.row, keys[1].column)
                   /\ IsNone(y.row, keys[1].column)) =>
                  Directed(x.row, y.row, keys[2]) <= 0

(* C16 witness: dept DESC, age DESC on the table with two rows that lack a
   dept: they come last, the one of greater age first. *)
C16_Witness ==
  /\ lastCall.query = OrderedBy(<<OrderKey("dept", "DESC"), OrderKey("age", "DESC")>>)
  /\ tables["dataset"].data = createTable(FileNulls, "dataset").data
  /\ ResultIds = <<3, 1, 4, 2>>

(* IN conditions: the column, the keyword and the list in parentheses. *)
InLists == {<<"Sales">>, <<"sales", "OTHER">>, <<"35", "50">>, <<"abc">>}

ListText(list) ==
  <<L(list[1])>> \o (IF Len(list) = 2 THEN <<W(","), L(list[2])>> ELSE <<>>)

InCondition(column, list) ==
  <<W(column), W("IN"), W("(")>> \o ListText(list) \o <<W(")")>>

InQueries ==
  {QWhere(InCondition(column, list)) : column \in GroupColumns, list \in InLists}
  \cup {QWhere(<<W("(")>> \o InCondition(column, list) \o <<W(")")>>) :
          column \in GroupColumns, list \in InLists}

(* The stored rows whose text form of the column is one of the list, the
   letter case aside. *)
InList(column, list) ==
  {i \in DOMAIN tables["dataset"].data :
     \E k \in DOMAIN list :
       toLowerCase(String(Get(tables["dataset"].data[i], column))) = toLowerCase(list[k])}

(* C19: WHERE col IN (v1, v2, ...) keeps exactly the rows whose text form of
   col is one of the listed values, ignoring letter case, and drops the
   others; with or without parentheses around the condition. *)
C19_InKeepsListedRows ==
  \A column \in GroupColumns, list \in InLists :
    (\/ lastCall.query = QWhere(InCondition(column, list))
     \/ lastCall.query = QWhere(<<W("(")>> \o InCondition(column, list) \o <<W(")")>>)) =>
      ResultIds = InStoredOrder(InList(column, list))

(* BETWEEN conditions; the keyword between the bounds as AND and as and. *)
Ranges == {<<20, 40>>, <<30, 50>>, <<28, 28>>}

BetweenCondition(column, range, kw) ==
  Words(<<column, "BETWEEN", ToString(range[1]), kw, ToString(range[2])>>)

BetweenQueries ==
  {QWhere(BetweenCondition(column, range, kw)) :
     column \in GroupColumns, range \in Ranges, kw \in {"AND", "and"}}

(* The stored rows whose value of the column parses as a number within the
   range, both ends included. *)
InRange(column, range) ==
  {i \in DOMAIN tables["dataset"].data :
     LET n == parseFloat(String(Get(tables["dataset"].data[i], column)))
     IN n.ok /\ range[1] * Scale <= n.v /\ n.v <= range[2] * Scale}

(* C20: WHERE col BETWEEN a AND b, evaluated as the WHERE clause of a query,
   keeps exactly the rows whose value of col parses as a number n with
   a <= n <= b and drops the rows whose value does not parse. *)
C20_BetweenKeepsRowsInRange ==
  \A column \in GroupColumns, range \in Ranges, kw \in {"AND", "and"} :
    lastCall.query = QWhere(BetweenCondition(column, range, kw)) =>
      ResultIds = InStoredOrder(InRange(column, range))

(* Comparisons of order against a literal that is no number. *)
OrderingOperators == {">", "<", ">=", "<="}

WordLiterals == {L("Sales"), L("engineering")}

OrderingQueries ==
  {QWhere(<<W(column), W(operator), literal>>) :
     column \in GroupColumns, operator \in OrderingOperators, literal \in WordLiterals}

(* The strings of the model in the order of their code units, letter case
   kept: the empty string, strings that start with a digit, words that start
   with a capital, words that start with a small letter. *)
CodeUnitOrder ==
  <<"ENGINEERING", "Engineering", "NULL", "Other", "SALES", "Sales",
    "abc", "engineering", "false", "null", "other", "sales", "true", "undefined">>

CodeUnitRank(s) ==
  IF s = "" THEN 0
  ELSE IF StartsWithDigit(s) THEN 1
  ELSE 1 + (CHOOSE i \in DOMAIN CodeUnitOrder : CodeUnitOrder[i] = s)

(* rowText operator literal, by code units. *)
OrderedAs(operator, rowText, literal) ==
  LET r == CodeUnitRank(rowText)
      l == CodeUnitRank(literal)
  IN CASE operator = ">" -> r > l
       [] operator = "<" -> r < l
       [] operator = ">=" -> r >= l
       [] operator = "<=" -> r <= l

(* C21: WHERE column op literal with op one of the four order comparisons
   and a literal that is no number keeps exactly the rows whose string form
   stands in that order to the literal as written, letter case counting, so
   that Engineering and engineering fare differently against Sales. *)
C21_OrderingIsCaseSensitive ==
  \A column \in GroupColumns, operator \in OrderingOperators, literal \in WordLiterals :
    lastCall.query = QWhere(<<W(column), W(operator), literal>>) =>
      ResultIds = InStoredOrder(
        {i \in DOMAIN tables["dataset"].data :
           OrderedAs(operator, String(Get(tables["dataset"].data[i], column)), literal.w)})

(* C22: without ORDER BY the rows of a GROUP BY query come in the order in
   which the keys of their groups were first met among the rows that passed
   WHERE, for every kind of grouping value, keys that read as integers
   included. *)
C22_GroupsInFirstSeenOrder ==
  \A column \in GroupColumns :
    IsGroupCountQuery(column) =>
      [i \in DOMAIN LastOutcome.rows |-> GroupKey(LastOutcome.rows[i].row, column)]
        = FirstSeen(Elements(PassedWhere), column)

(* A table with a group whose age cells are a number, a text that is no
   number and a missing cell. *)
FileThirds ==
  <<Row2(Str("Sales"), Num(2)), Row2(Str("Sales"), Str("7up")),
    <<Entry("dept", Str("Sales"))>>, Row2(Str("Other"), Num(5))>>

(* The sum and the mean of age per group; the second form also selects the
   two aliases as columns of the grouped rows. *)
SumAvgQuery(column) ==
  Words(<<"SELECT", column, ",", "SUM(age)", "AS", "s", ",", "AVG(age)", "AS", "a",
          "FROM", "dataset">>)

SumAvgReselected(column) ==
  Words(<<"SELECT", column, ",", "SUM(age)", "AS", "s", ",", "s", ",",
          "AVG(age)", "AS", "a", ",", "a", "FROM", "dataset">>)

SumAvgBases(column) == {SumAvgQuery(column), SumAvgReselected(column)}

SumAvgQueries ==
  UNION {{GroupedBy(base, column) : base \in SumAvgBases(column)}
         \cup {GroupedBy(base \o <<W("WHERE")>> \o leaf, column) :
                 base \in SumAvgBases(column), leaf \in Leaves} :
           column \in GroupColumns}

IsSumAvgQuery(column) ==
  \E base \in SumAvgBases(column) :
    \/ lastCall.query = GroupedBy(base, column)
    \/ \E leaf \in Leaves :
         lastCall.query = GroupedBy(base \o <<W("WHERE")>> \o leaf, column)

(* The rows of the last query after its GROUP BY step. *)
Aggregated ==
  Rows(GroupByStep(lastCall.query,
                   WhereStep(lastCall.query, Started(tables["dataset"].data))).rows)

(* What a cell counts for in a sum: its number, and 0 when it has none. *)
CountsFor(row, column) ==
  LET x == NumberOf(Get(row, column)) IN IF x.ok THEN x.v ELSE 0

RECURSIVE Total(_, _, _)
Total(rows, members, column) ==
  IF members = {} THEN 0
  ELSE LET j == CHOOSE m \in members : TRUE
       IN CountsFor(rows[j], column) + Total(rows, members \ {j}, column)

(* C23: for each group SUM(age) is the sum of the age cells of the rows of
   the group, a cell that is no number or is missing counting 0, and AVG(age)
   is that sum divided by the number of rows of the group, rounded to two
   decimals (to the nearest hundredth, a half going up); no cell makes the
   query fail.  A query that selects the aliases as columns returns both. *)
C23_SumAndMeanOfGroup ==
  \A column \in GroupColumns :
    IsSumAvgQuery(column) =>
      /\ LastOutcome.kind = "Rows"
      /\ \A i \in DOMAIN Aggregated :
           LET r == Aggregated[i]
               members == {j \in DOMAIN PassedWhere :
                             GroupKey(PassedWhere[j], column) = GroupKey(r, column)}
               n == Cardinality(members)
               sum == Total(PassedWhere, members, "age")
           IN /\ n > 0
              /\ Has(r, "s") /\ Get(r, "s") = [Num(0) EXCEPT !.n = sum]
              /\ Has(r, "a") /\ Get(r, "a").t = "num"
              /\ 2 * (Get(r, "a").n * n - sum) \in (1 - n)..n
      /\ selectMatch(lastCall.query).clause = SubSeq(SumAvgReselected(column), 2, 14) =>
           /\ Len(LastOutcome.rows) = Len(Aggregated)
           /\ \A i \in DOMAIN Aggregated :
                /\ Get(LastOutcome.rows[i].row, "s") = Get(Aggregated[i], "s")
                /\ Get(LastOutcome.rows[i].row, "a") = Get(Aggregated[i], "a")

(* C23 witness: the group Sales of a number 2, a text that is no number and
   a missing cell has come back with the sum 2 and the mean 0.67. *)
C23_Witness ==
  /\ lastCall.query = GroupedBy(SumAvgReselected("dept"), "dept")
  /\ tables["dataset"].data = createTable(FileThirds, "dataset").data
  /\ Rows(LastOutcome.rows)[1] =
       <<Entry("dept", Str("Sales")), Entry("s", Num(2)),
         Entry("a", [Num(0) EXCEPT !.n = 67])>>

(* Entries of a SELECT list: the text, the source column and the key the
   entry writes.  abc is a column no table has; 7 is an alias that reads as
   an integer. *)
Item(text, source, target) == [text |-> Words(text), source |-> source, target |-> target]

SelectItems ==
  {Item(<<"dept">>, "dept", "dept"), Item(<<"age">>, "age", "age"),
   Item(<<"abc">>, "abc", "abc"), Item(<<"dept", "AS", "d">>, "dept", "d"),
   Item(<<"age", "n">>, "age", "n"), Item(<<"abc", "AS", "x">>, "abc", "x"),
   Item(<<"age", "AS", "7">>, "age", "7")}

SelectLists ==
  {<<item>> : item \in SelectItems}
  \cup {<<pair[1], pair[2]>> : pair \in {p \in SelectItems \X SelectItems : p[1] # p[2]}}

ListWords(list) ==
  IF Len(list) = 1 THEN list[1].text ELSE list[1].text \o <<W(",")>> \o list[2].text

(* What follows the table name: nothing, a filter, a sort with a limit. *)
Tails ==
  {<<>>, <<W("WHERE")>> \o LeafAgeOver,
   Words(<<"ORDER", "BY", "age", "DESC", "LIMIT", "2">>)}

Selecting(words, tail) == <<W("SELECT")>> \o words \o Words(<<"FROM", "dataset">>) \o tail

ProjectionQueries ==
  {Selecting(ListWords(list), tail) : list \in SelectLists, tail \in Tails}
  \cup {Selecting(<<W("*")>>, tail) : tail \in Tails}

(* The entries a SELECT list writes for a row: one for each entry of the list
   whose source the row has, in the order of the list. *)
Written(row, list) ==
  LET present == SelectSeq(list, LAMBDA item : Has(row, item.source))
  IN [i \in DOMAIN present |->
        Entry(present[i].target, Get(row, present[i].source))]

(* The rows SELECT * returns with the same clauses. *)
Unprojected(tail) ==
  Rows(executeQuery(Selecting(<<W("*")>>, tail), initialized, tables).rows)

ProjectsAsListed(lists) ==
  \A list \in lists, tail \in Tails :
    lastCall.query = Selecting(ListWords(list), tail) =>
      /\ LastOutcome.kind = "Rows"
      /\ Len(LastOutcome.rows) = Len(Unprojected(tail))
      /\ \A i \in DOMAIN LastOutcome.rows :
           LastOutcome.rows[i].row = Written(Unprojected(tail)[i], list)

(* C24: the projection of a SELECT list other than * keeps the number and
   the order of the rows and writes, for each row, exactly the entries whose
   source column the row has, under the alias or the column name, in the
   order of the SELECT list, and nothing for an entry whose source the row
   lacks; SELECT * returns the rows with all their columns. *)
C24_ProjectionWritesListedEntries ==
  /\ ProjectsAsListed(SelectLists)
  /\ lastCall.query = SelectStar => Rows(LastOutcome.rows) = tables["dataset"].data

(* The table name of a query as written after FROM. *)
WrittenTable(query) ==
  query[FirstOf({j \in 1..(Len(query) - 1) :
                   IsKeyword(query[j], "from") /\ IsWord(query[j + 1])}) + 1].w

(* C25: table names are case-sensitive keys: a SELECT on an initialized
   store returns rows when the store holds a table under exactly the name
   written after FROM, and fails with UnknownTable otherwise, so that FROM
   Dataset and FROM DATASET fail when the store holds dataset. *)
C25_TableNamesAreCaseSensitive ==
  (/\ lastCall.op = "executeQuery"
   /\ initialized
   /\ StartsWithSelect(lastCall.query)
   /\ fromMatch(lastCall.query).ok) =>
     lastCall.kind = IF HasTable(tables, WrittenTable(lastCall.query))
                     THEN "Rows" ELSE "UnknownTable"

(* C26: a query with WHERE and without GROUP BY or ORDER BY returns its rows
   in the order in which the table stores them, for every WHERE expression,
   those with OR included. *)
C26_WhereKeepsStoredOrder ==
  lastCall.op = "executeQuery" =>
    \A i, j \in DOMAIN ResultIds : i < j => ResultIds[i] < ResultIds[j]

(* A table whose column names begin with a capital. *)
FileCaps ==
  << <<Entry("Dept", Str("Sales")), Entry("Age", Num(28))>>,
     <<Entry("Dept", Str("Engineering")), Entry("Age", Num(41))>>,
     <<Entry("Dept", Str("Other")), Entry("Age", Num(35))>> >>

WrittenColumns == {"Age", "age"}

SortedBy(column, direction) ==
  SelectStar \o Words(<<"ORDER", "BY", column>>)
    \o (IF direction = "" THEN <<>> ELSE <<W(direction)>>)

WrittenOrderQueries ==
  {SortedBy(column, direction) : column \in WrittenColumns, direction \in Directions}

(* C27: ORDER BY col sorts by the stored column whose name is col as
   written, whatever its letter case: on a table whose rows all hold a number
   under that name the rows come back in ascending order of it, and in
   descending order with DESC. *)
C27_SortsByColumnAsWritten ==
  \A column \in WrittenColumns, direction \in Directions :
    (/\ lastCall.query = SortedBy(column, direction)
     /\ \A i \in DOMAIN tables["dataset"].data :
          Get(tables["dataset"].data[i], column).t = "num") =>
      /\ Len(LastOutcome.rows) = Len(tables["dataset"].data)
      /\ \A i, j \in DOMAIN LastOutcome.rows :
           i < j =>
             LET a == Get(LastOutcome.rows[i].row, column).n
                 b == Get(LastOutcome.rows[j].row, column).n
             IN IF direction = "DESC" THEN a >= b ELSE a <= b

(* C28: the boolean keywords are recognised in any letter case: WHERE A and
   B returns what WHERE A AND B returns, and WHERE A or B what WHERE A OR B
   returns, for all leaves A and B. *)
C28_KeywordsInAnyCase ==
  \A a, b \in Leaves, kw \in {"AND", "OR"} :
    lastCall.query = QWhere(Joined(a, toLowerCase(kw), b)) =>
      LastOutcome.rows = executeQuery(QWhere(Joined(a, kw, b)), initialized, tables).rows

(* The loads and resets of the store, with the order of the calls recorded. *)
NextLoads ==
  \/ \E p \in Procs, file \in Files : LoadStart(p, file) /\ lastStarted' = LoadOf(p, file)
  \/ \E p \in Procs :
       LoadStore(p) /\ lastStarted' = IF procs[p].file = <<>> THEN Failed(p)
                                      ELSE lastStarted
  \/ \E p \in Procs : LoadParseError(p) /\ lastStarted' = Failed(p)
  \/ Reset /\ lastStarted' = NoLoad

SpecLoads == Init /\ [][NextLoads]_vars

(* C29: when two loads overlap, once both are complete the table dataset
   holds the rows and the schema of the load that was called last, whichever
   parse resolved first: in the state a successful load leaves, with no load
   pending and the load called last not failed, the table is the one that
   load makes. *)
C29_LastCalledLoadWins ==
  (/\ lastCall.op = "load"
   /\ lastCall.kind = "Loaded"
   /\ \A p \in Procs : procs[p].pc = "idle"
   /\ lastStarted # NoLoad) =>
     /\ HasTable(tables, "dataset")
     /\ tables["dataset"] = createTable(lastStarted.file, "dataset")

(***************************************************************************)
(* DataProcessor.executeQuery: the engine, and a fallback when it fails    *)
(* (checked under SpecProcessor).                                          *)
(***************************************************************************)
(* The number of rows of the fallback, data.slice(0, 10). *)
FallbackRows == 10

ClarificationQuery == <<W("CLARIFICATION_NEEDED")>>

ClarificationRow ==
  <<Entry("message", Str("Please provide a more specific question about your data."))>>

(* lowerQuery.includes('show columns') *)
IsShowColumns(query) ==
  \E j \in 1..(Len(query) - 1) :
    /\ query[j].q = "" /\ toLowerCase(query[j].w) = "show"
    /\ query[j + 1].q = "" /\ toLowerCase(query[j + 1].w) = "columns"

(* DataProcessor.inferDataType.  The date rule is reached by a column whose
   values are not all numbers; the data of the model have such columns of
   words only, which parse as no date. *)
DataProcessor_inferDataType(data, columnName) ==
  LET values == {v \in {Get(data[i], columnName) : i \in DOMAIN data} : ~IsBlank(v)}
  IN IF values = {} THEN "TEXT"
     ELSE IF \A v \in values : \/ v.t = "bool"
                               \/ v.t = "str" /\ v.s \in {"true", "false"}
                               \/ v.t = "num" /\ v.n \in {0, Scale}
          THEN "BOOLEAN"
     ELSE IF \A v \in values : NumberOf(v).ok
          THEN IF \A v \in values : NumberOf(v).v % Scale = 0 THEN "INTEGER" ELSE "REAL"
     ELSE IF \A v \in values : IsDate(v) THEN "DATE"
     ELSE "TEXT"

(* The rows of SHOW COLUMNS: one for each key of the first row. *)
ColumnInfo(data) ==
  LET sampleRow == data[1]
  IN [i \in DOMAIN sampleRow |->
        <<Entry("column_name", Str(sampleRow[i].k)),
          Entry("data_type", Str(DataProcessor_inferDataType(data, sampleRow[i].k))),
          Entry("sample_value", sampleRow[i].v)>>]

(* A variant of the fallback that returns the whole data. *)
executeFallbackQuery_Unsliced(data, query) ==
  IF query = ClarificationQuery THEN <<ClarificationRow>>
  ELSE IF IsShowColumns(query) THEN IF data = <<>> THEN <<>> ELSE ColumnInfo(data)
  ELSE data

(* DataProcessor.executeFallbackQuery *)
executeFallbackQuery(data, query) ==
  IF query = ClarificationQuery THEN <<ClarificationRow>>
  ELSE IF IsShowColumns(query) THEN IF data = <<>> THEN <<>> ELSE ColumnInfo(data)
  ELSE Slice(data, FallbackRows)

(* DataProcessor.executeQuery: what it returns, whether the engine failed,
   and the store it leaves. *)
DataProcessor_executeQuery(data, query, init, store) ==
  LET out == executeQuery(query, init, store)
  IN IF out.kind = "Rows"
     THEN [rows |-> Rows(out.rows), failed |-> FALSE, store |-> out.store]
     ELSE [rows |-> executeFallbackQuery(data, query), failed |-> TRUE, store |-> store]

ProcessorExecuteQuery(data, query) ==
  /\ tables' = DataProcessor_executeQuery(data, query, initialized, tables).store
  /\ lastCall' = [NoCall EXCEPT !.op = "DataProcessor.executeQuery",
                                !.kind = executeQuery(query, initialized, tables).kind,
                                !.query = query, !.data = data]
  /\ UNCHANGED <<initialized, procs, loaded, loadBegun, lastStarted>>

(* Data arguments: none (what the chat passes), three rows, eleven rows. *)
ElevenRows == [i \in 1..(FallbackRows + 1) |-> <<Entry("age", Num(i))>>]

DataArgs == {<<>>, FileStaff, ElevenRows}

ProcessorQueries ==
  { SelectStar,
    Words(<<"SELECT", "dept", "FROM", "dataset", "ORDER", "BY", "age", "DESC">>),
    Words(<<"SELECT", "*", "FROM", "other">>),
    Words(<<"DELETE", "FROM", "dataset">>),
    Words(<<"SELECT", "*">>),
    ClarificationQuery,
    Words(<<"SHOW", "COLUMNS">>),
    Words(<<"show", "columns", "FROM", "dataset">>) }

ProcessorFiles == {FileStaff, FileTwins}

NextProcessor ==
  \/ \E p \in Procs, file \in ProcessorFiles : LoadStart(p, file) /\ UNCHANGED lastStarted
  \/ \E p \in Procs : LoadStore(p) /\ UNCHANGED lastStarted
  \/ Reset /\ UNCHANGED lastStarted
  \/ \E data \in DataArgs, query \in ProcessorQueries : ProcessorExecuteQuery(data, query)

SpecProcessor == Init /\ [][NextProcessor]_vars

(* What the last call of DataProcessor.executeQuery has returned. *)
ProcessorResult ==
  DataProcessor_executeQuery(lastCall.data, lastCall.query, initialized, tables).rows

EngineFailures ==
  {"NotInitialized", "UnsupportedStatement", "MissingFromClause", "UnknownTable"}

(* C30: DataProcessor.executeQuery always returns rows.  When the engine
   succeeds they are the engine's rows; when the engine fails with one of its
   failures they are a fallback made of the data argument alone, the same
   for every store: the clarification message, the listing of the columns of
   the data, or else the first rows of the data, ten at most.  A failure on no
   data returns what a successful query without rows returns. *)
C30_FailuresGiveFallback ==
  lastCall.op = "DataProcessor.executeQuery" =>
    LET data == lastCall.data
        query == lastCall.query
        n == IF Len(data) < FallbackRows THEN Len(data) ELSE FallbackRows
    IN IF lastCall.kind = "Rows"
       THEN ProcessorResult = Rows(LastOutcome.rows)
       ELSE /\ lastCall.kind \in EngineFailures
            /\ ProcessorResult =
                 DataProcessor_executeQuery(data, query, FALSE, EmptyStore).rows
            /\ IF query = ClarificationQuery
               THEN ProcessorResult = <<ClarificationRow>>
               ELSE IF IsShowColumns(query)
               THEN /\ Len(ProcessorResult) = IF data = <<>> THEN 0 ELSE Len(data[1])
                    /\ \A i \in DOMAIN ProcessorResult :
                         /\ Get(ProcessorResult[i], "column_name") = Str(data[1][i].k)
                         /\ Get(ProcessorResult[i], "sample_value") = data[1][i].v
               ELSE /\ Len(ProcessorResult) = n
                    /\ \A i \in 1..n : ProcessorResult[i] = data[i]
            /\ data = <<>> /\ query # ClarificationQuery => ProcessorResult = <<>>

(* C30 witness: a query on a table the store does not hold, called with
   eleven rows of data, has returned the first ten of them. *)
C30_Witness ==
  /\ lastCall.op = "DataProcessor.executeQuery"
  /\ lastCall.kind = "UnknownTable"
  /\ lastCall.data = ElevenRows
  /\ Len(ProcessorResult) = FallbackRows
  /\ ProcessorResult[FallbackRows] = ElevenRows[FallbackRows]

(***************************************************************************)
(* Queries on a loaded table.                                              *)
(***************************************************************************)
QueryPool == NoOpQueries \cup LimitQueries \cup GroupCountQueries \cup AggregateQueries \cup OrderQueries \cup InQueries \cup BetweenQueries \cup OrderingQueries \cup SumAvgQueries \cup ProjectionQueries \cup WrittenOrderQueries

QueryFiles == WhereFiles \cup {FileNulls, FileTeam, FileThirds, FileCaps}

(* The store after one successful load. *)
InitQuery ==
  \E file \in QueryFiles :
    /\ initialized = TRUE
    /\ tables = SetTable(EmptyStore, "dataset", createTable(file, "dataset"))
    /\ procs = [p \in Procs |-> Idle]
    /\ lastCall = [NoCall EXCEPT !.op = "load", !.kind = "Loaded"]
    /\ loaded = createTable(file, "dataset")
    /\ loadBegun = TRUE
    /\ lastStarted = NoLoad

(* Each behaviour applies one query to the table the load left. *)
NextQuery == lastCall.op = "load" /\ \E query \in QueryPool : ExecuteQuery(query)

SpecQuery == InitQuery /\ [][NextQuery]_vars

(***************************************************************************)
(* Type inference (checked under SpecInfer).                               *)
(***************************************************************************)
MaxSample == 3

(* The cell values of the samples. *)
SampleValues ==
  {Str("1"), Str("2"), Str("3"), Str("2.5"), Str("true"), Str("FALSE"),
   Str("2024-01-01"), Str("not-a-date"), Num(0), Num(1), Num(3), Null, Str("")}

Samples == UNION {[1..n -> SampleValues] : n \in 1..MaxSample}

(* Date.parse of a text that is not in the date-time format of the language
   is left to the runtime; a sample is settled when no numeral of it gets as
   far as the date rule with only dates beside it. *)
DateParseSettled(sample) ==
  LET values == {v \in Range(sample) : ~IsBlank(v)}
  IN \/ \A v \in values : NumberOf(v).ok
     \/ \E v \in values : ~NumberOf(v).ok /\ ~IsDate(v)

(* The one-column file of a sample. *)
ColumnFile(sample) == [i \in DOMAIN sample |-> <<Entry("c", sample[i])>>]

InferFiles == {ColumnFile(sample) : sample \in {x \in Samples : DateParseSettled(x)}}

(* A file whose second row has a cell the first row lacks. *)
FileWide ==
  <<Row2(Str("Sales"), Num(30)),
    Row2(Str("Other"), Num(20)) \o <<Entry("extra", Str("abc"))>>>>

(* Files whose rows do not all have the keys of the first row. *)
RaggedFiles == {FileShort, FileWide}

(* Each behaviour loads one file into a new store. *)
NextInfer ==
  \/ ~loadBegun /\ \E p \in Procs, file \in InferFiles \cup RaggedFiles :
                     LoadStart(p, file) /\ UNCHANGED lastStarted
  \/ \E p \in Procs : LoadStore(p) /\ UNCHANGED lastStarted

SpecInfer == Init /\ [][NextInfer]_vars

(* The type the order of the rules gives a column of a data array. *)
C17_Expected(data, column) ==
  LET sample == {v \in {Get(data[i], column) : i \in DOMAIN data} : ~IsBlank(v)}
      isBoolean(v) == \/ v.t = "bool"
                      \/ v.t = "str" /\ toLowerCase(v.s) \in {"true", "false"}
                      \/ v = Num(0) \/ v = Num(1)
      isReal(v) == NumberOf(v).ok
      isInteger(v) == NumberOf(v).ok /\ NumberOf(v).v % Scale = 0
  IN IF sample = {} THEN "STRING"
     ELSE IF \A v \in sample : isBoolean(v) THEN "BOOLEAN"
     ELSE IF \A v \in sample : isInteger(v) THEN "INTEGER"
     ELSE IF \A v \in sample : isReal(v) THEN "REAL"
     ELSE IF \A v \in sample : IsDate(v) THEN "DATE"
     ELSE "STRING"

Strings(texts) == ColumnFile([i \in DOMAIN texts |-> Str(texts[i])])

(* C17: type inference gives every column one of the five types, the first
   of BOOLEAN, INTEGER, REAL, DATE whose rule every non-null, non-empty
   value satisfies, and STRING when none does or nothing is left; so do the
   examples of the claim. Checked on the raw data of a load in flight and on
   the schema of the table it stores. *)
C17_InferenceFollowsPrecedence ==
  /\ \A p \in Procs :
       (procs[p].pc = "parsing" /\ procs[p].file # <<>>) =>
         LET data == procs[p].file
             type == inferDataType(data, "c")
         IN /\ type \in {"BOOLEAN", "INTEGER", "REAL", "DATE", "STRING"}
            /\ type = C17_Expected(data, "c")
            /\ data = Strings(<<"1", "2", "3">>) => type = "INTEGER"
            /\ data = Strings(<<"1", "2.5">>) => type = "REAL"
            /\ data = Strings(<<"true", "FALSE">>) => type = "BOOLEAN"
            /\ data = Strings(<<"2024-01-01", "not-a-date">>) => type = "STRING"
            /\ data = ColumnFile(<<Num(0), Num(1), Num(1)>>) => type = "BOOLEAN"
  /\ HasTable(tables, "dataset") =>
       \A i \in DOMAIN tables["dataset"].columns :
         tables["dataset"].columns[i].type =
           C17_Expected(tables["dataset"].data, tables["dataset"].columns[i].name)

(* C17 witness: a column of the numbers 0 and 1 has been stored as BOOLEAN. *)
C17_Witness ==
  /\ HasTable(tables, "dataset")
  /\ tables["dataset"].data = ColumnFile(<<Num(0), Num(1), Num(1)>>)
  /\ tables["dataset"].columns[1].type = "BOOLEAN"

(* C18: after a successful load every stored row has exactly the columns of
   the schema: a key of the schema that the source row lacks is stored with
   Null, and no row has a key outside the schema. *)
C18_RowsHaveSchemaColumns ==
  HasTable(tables, "dataset") =>
    LET table == tables["dataset"]
        names == {table.columns[i].name : i \in DOMAIN table.columns}
    IN /\ names = Range(Keys(table.data[1]))
       /\ \A i \in DOMAIN table.data : Range(Keys(table.data[i])) = names
====
